---- MODULE Spec2Model ----
(***************************************************************************)
(* staticlib_containers: the lock-free single-producer/single-consumer     *)
(* ring buffer (producer_consumer_queue) and the mutex-guarded blocking    *)
(* queue (blocking_queue), modelled as state machines.                      *)
(*                                                                         *)
(* Ring buffer: one producer thread and one consumer thread; every atomic  *)
(* load or store of a cursor and every access to a slot is one step, and   *)
(* the steps of the two threads interleave freely.  The acquire/release    *)
(* atomics are modelled as sequentially consistent steps.                  *)
(*                                                                         *)
(* Blocking queue: any thread may call any operation.  Acquiring the       *)
(* mutex is one step; what an operation does while it holds the mutex is   *)
(* one step; a take that waits releases the mutex, is suspended on the     *)
(* condition variable, and reacquires the mutex in a step of its own after *)
(* a notify, a spurious wakeup or a timeout.                               *)
(***************************************************************************)
EXTENDS Integers, Sequences, FiniteSets, TLC

\* ----------------------------------------------------------------- bounds
\* largest requested ring buffer size
MaxSize == 2
\* largest element value; elements are 1..MaxVal
MaxVal == 2
\* number of emplace/poll calls made on the ring buffer in one behaviour
MaxCalls == 6
\* number of threads using the blocking queue
NThreads == 2
\* largest max_size of the blocking queue (0 is the unbounded queue)
MaxBound == 1
\* number of elements appended to the blocking queue in one behaviour
MaxAppend == 2
\* longest range passed to emplace_range
MaxRange == 2
\* the threads that call take while another thread fills and unblocks the queue
NTakers == 2
\* number of emplace/poll calls made among calls of every other ring buffer operation
MaxBusy == 2
\* number of bits of unsigned int, uint32_t and int in the model (32 in the
\* program); size_t has twice as many
UintBits == 4

Values == 1..MaxVal
\* the value of a moved-from element / of storage that holds no element
NoVal == 0
\* the null pointer
Null == -1

VARIABLES
    \* ---- producer_consumer_queue
    requested,      \* the constructor's argument size
    size_,          \* const uint32_t size_
    records_,       \* T* records_: slot -> [st, val]
    readIndex_,     \* std::atomic<unsigned int> readIndex_
    writeIndex_,    \* std::atomic<unsigned int> writeIndex_
    \* ---- producer thread
    ppc,            \* position of the producer inside emplace
    currentWrite,   \* emplace: currentWrite
    nextWrite,      \* emplace: nextRecord
    parg,           \* emplace: record_args
    \* ---- consumer thread
    cpc,            \* position of the consumer inside poll / front_ptr
    currentRead,    \* poll, front_ptr: currentRead
    nextRead,       \* poll: nextRecord
    record,         \* the caller's out variable of poll
    frontp,         \* the pointer the last front_ptr returned (a slot index or Null)
    peek,           \* the value the consumer last read through that pointer
    \* ---- bookkeeping of the run
    hist,           \* completed calls in order of return: <<"emplace", value, 1 or 0>>,
                    \* <<"poll", value, 1 or 0>>, <<"destroy", NoVal, slots destroyed>>
    numInstances,   \* constructor runs minus destructor runs on slots
    ub,             \* an access with undefined behaviour has happened
    destroyed,      \* ~producer_consumer_queue has run
    \* ---- size_guess, called by the producer ("p") or the consumer ("c")
    gload,          \* caller -> [w, r]: the indices size_guess has loaded (Null: not yet)
    guessed,        \* the size_guess that returned last: [by, ret]
    answered,       \* the is_empty / is_full / max_size that returned last: [by, op, ret]
    \* ---- the poll in progress
    owed,           \* when it was called, more emplace calls than poll calls had returned true
    \* ---- blocking_queue fields
    mutex,          \* std::mutex mutex: the thread that holds it, or 0
    empty_cv,       \* std::condition_variable empty_cv: the threads suspended on it
    delegate,       \* std::deque<T> delegate
    max_size,       \* size_t max_size
    blocking,       \* bool blocking
    \* ---- the threads using the blocking queue
    bpc,            \* thread -> its position inside the operation it runs
    timed,          \* thread -> its take was called with timeout_millis >= 0
    \* ---- bookkeeping of the run
    appended,       \* the elements appended to delegate, in order of appending
    removed,        \* the elements removed from delegate, in order of removal
    last,           \* the call that returned last: [op, ret, out, timed]
    unblocked,      \* a call of unblock has returned
    \* ---- the call of consume in progress
    consumed        \* [visited, count]: the values passed to func so far, and count

ringvars == <<requested, size_, records_, readIndex_, writeIndex_, ppc, currentWrite, nextWrite,
              parg, cpc, currentRead, nextRead, record, frontp, peek, hist, numInstances,
              ub, destroyed, gload, guessed, owed, answered>>

bqvars == <<mutex, empty_cv, delegate, max_size, blocking, bpc, timed, appended,
            removed, last, unblocked, consumed>>

vars == <<ringvars, bqvars>>

\* ------------------------------------------------------- ring buffer: data
RawSlot == [st |-> "raw", val |-> NoVal]

\* mutant of StoredSize: the constructor stores the requested size itself
StoredSizeExact(size) == size

\* uint32_t, unsigned int: the values are 0..UintRange - 1 and the arithmetic
\* is modulo UintRange
UintRange == 2 ^ UintBits

\* an unsigned value converted to int: the value modulo UintRange that int
\* can hold
ToInt(u) == IF u % UintRange >= UintRange \div 2 THEN (u % UintRange) - UintRange
            ELSE u % UintRange

\* an int converted to size_t, which has twice the bits of unsigned int: the
\* value modulo the range of size_t
ToSizeT(i) == i % (UintRange * UintRange)

\* constructor: size_(size + 1), size and size_ being uint32_t
StoredSize(size) == (size + 1) % UintRange

\* mutant of NextRecord: the index is not wrapped at size_
NextRecordNoWrap(current) == current + 1

\* mutant of NextRecord: the index advances by two
NextRecordSkip(current) == (current + 2) % size_

\* emplace / poll: nextRecord = current + 1; if (nextRecord == size_) nextRecord = 0
NextRecord(current) == IF current + 1 = size_ THEN 0 ELSE current + 1

\* mutant of HasRoom: emplace finds the buffer full whatever readIndex_ is
HasRoomNever(next, readIdx) == FALSE

\* mutant of HasRoom: emplace does not look at readIndex_
HasRoomAlways(next, readIdx) == TRUE

\* emplace: the buffer has room when nextRecord != readIndex_
HasRoom(next, readIdx) == next # readIdx

\* mutant of IsEmptyAt: poll and front_ptr find the buffer empty whatever
\* writeIndex_ is
AlwaysEmptyAt(cur, writeIdx) == TRUE

\* mutant of IsEmptyAt: poll and front_ptr do not look at writeIndex_
NeverEmptyAt(cur, writeIdx) == FALSE

\* poll / front_ptr: the buffer is empty when currentRead == writeIndex_
IsEmptyAt(cur, writeIdx) == cur = writeIdx

\* slot i holds a constructed element
IsLive(i) == i \in DOMAIN records_ /\ records_[i].st = "live"

\* calls completed so far plus calls in progress
CallsStarted == Len(hist) + (IF ppc \in {"e_check", "e_new", "e_ctor", "e_store"} THEN 1 ELSE 0)
                          + (IF cpc \in {"p_check", "p_move", "p_dtor", "p_store"} THEN 1 ELSE 0)

\* size_guess has loaded neither index yet
NotLoaded == [w |-> Null, r |-> Null]

\* no size_guess has returned yet
NoGuess == [by |-> "none", ret |-> 0]

\* no is_empty, is_full or max_size has returned
NoAnswer == [by |-> "none", op |-> "none", ret |-> 0]

RingInit ==
    /\ requested \in 1..MaxSize
    /\ size_ = StoredSize(requested)
    /\ records_ = [i \in 0..(size_ - 1) |-> RawSlot]
    /\ readIndex_ = 0
    /\ writeIndex_ = 0
    /\ ppc = "idle" /\ currentWrite = 0 /\ nextWrite = 0 /\ parg = NoVal
    /\ cpc = "idle" /\ currentRead = 0 /\ nextRead = 0 /\ record = NoVal
    /\ frontp = Null /\ peek = NoVal
    /\ hist = <<>>
    /\ numInstances = 0
    /\ ub = FALSE
    /\ destroyed = FALSE
    /\ gload = [who \in {"p", "c"} |-> NotLoaded]
    /\ guessed = NoGuess
    /\ owed = FALSE
    /\ answered = NoAnswer

\* ---------------------------------------------------- ring buffer: emplace
prodvars == <<ppc, currentWrite, nextWrite, parg>>
consvars == <<cpc, currentRead, nextRead, record, frontp, peek>>

\* emplace is called; currentWrite = writeIndex_.load(relaxed); nextRecord computed
EmplaceCall(v) ==
    /\ ppc = "idle" /\ ~destroyed
    /\ CallsStarted < MaxCalls
    /\ currentWrite' = writeIndex_
    /\ nextWrite' = NextRecord(writeIndex_)
    /\ parg' = v
    /\ ppc' = "e_check"
    /\ UNCHANGED <<requested, size_, records_, readIndex_, writeIndex_, consvars, hist,
                   numInstances, ub, destroyed>>
    /\ UNCHANGED <<gload, guessed, owed, answered>>
    /\ UNCHANGED bqvars

\* mutant of EmplaceCheck: emplace waits until the buffer has room
EmplaceCheckWait ==
    /\ ppc = "e_check"
    /\ HasRoom(nextWrite, readIndex_)
    /\ ppc' = "e_new"
    /\ UNCHANGED <<requested, size_, records_, readIndex_, writeIndex_, currentWrite, nextWrite,
                   parg, consvars, hist, numInstances, ub, destroyed>>
    /\ UNCHANGED <<gload, guessed, owed, answered>>
    /\ UNCHANGED bqvars

\* if (nextRecord != readIndex_.load(acquire)) ... else return false
EmplaceCheck ==
    /\ ppc = "e_check"
    /\ IF HasRoom(nextWrite, readIndex_)
       THEN /\ ppc' = "e_new"
            /\ hist' = hist
       ELSE /\ ppc' = "idle"
            /\ hist' = Append(hist, <<"emplace", parg, 0>>)
    /\ UNCHANGED <<requested, size_, records_, readIndex_, writeIndex_, currentWrite, nextWrite,
                   parg, consvars, numInstances, ub, destroyed>>
    /\ UNCHANGED <<gload, guessed, owed, answered>>
    /\ UNCHANGED bqvars

\* new (&records_[currentWrite]) T(...): the constructor starts
EmplaceConstructBegin ==
    /\ ppc = "e_new"
    /\ ub' = (ub \/ records_[currentWrite].st \in {"live", "ctor"})
    /\ records_' = [records_ EXCEPT ![currentWrite] = [st |-> "ctor", val |-> NoVal]]
    /\ ppc' = "e_ctor"
    /\ UNCHANGED <<requested, size_, readIndex_, writeIndex_, currentWrite, nextWrite, parg,
                   consvars, hist, numInstances, destroyed>>
    /\ UNCHANGED <<gload, guessed, owed, answered>>
    /\ UNCHANGED bqvars

\* new (&records_[currentWrite]) T(...): the constructor completes
EmplaceConstructEnd ==
    /\ ppc = "e_ctor"
    /\ records_' = [records_ EXCEPT ![currentWrite] = [st |-> "live", val |-> parg]]
    /\ numInstances' = numInstances + 1
    /\ ppc' = "e_store"
    /\ UNCHANGED <<requested, size_, readIndex_, writeIndex_, currentWrite, nextWrite, parg,
                   consvars, hist, ub, destroyed>>
    /\ UNCHANGED <<gload, guessed, owed, answered>>
    /\ UNCHANGED bqvars

\* writeIndex_.store(nextRecord, release); return true
EmplaceStore ==
    /\ ppc = "e_store"
    /\ writeIndex_' = nextWrite
    /\ ppc' = "idle"
    /\ hist' = Append(hist, <<"emplace", parg, 1>>)
    /\ UNCHANGED <<requested, size_, records_, readIndex_, currentWrite, nextWrite, parg,
                   consvars, numInstances, ub, destroyed>>
    /\ UNCHANGED <<gload, guessed, owed, answered>>
    /\ UNCHANGED bqvars

\* ---------------------------------------------------- ring buffer: history
\* the values of the calls of hist that are `op` calls and returned true
RECURSIVE ValuesOf(_, _)
ValuesOf(h, op) ==
    IF h = <<>> THEN <<>>
    ELSE (IF h[1][1] = op /\ h[1][3] = 1 THEN <<h[1][2]>> ELSE <<>>) \o ValuesOf(Tail(h), op)

\* the values passed to the emplace calls that returned true, in order
emplaced == ValuesOf(hist, "emplace")

\* the values the poll calls that returned true gave back, in order
polled == ValuesOf(hist, "poll")

\* ------------------------------------------------------- ring buffer: poll
\* poll is called; currentRead = readIndex_.load(relaxed).  A pointer obtained
\* from front_ptr is not used after this call.
PollCall ==
    /\ cpc = "idle" /\ ~destroyed
    /\ CallsStarted < MaxCalls
    /\ currentRead' = readIndex_
    /\ frontp' = Null
    /\ cpc' = "p_check"
    /\ UNCHANGED <<requested, size_, records_, readIndex_, writeIndex_, prodvars, nextRead, record,
                   peek, hist, numInstances, ub, destroyed>>
    /\ owed' = (Len(emplaced) > Len(polled))
    /\ UNCHANGED <<gload, guessed, answered>>
    /\ UNCHANGED bqvars

\* if (currentRead == writeIndex_.load(acquire)) return false; nextRecord computed
PollCheck ==
    /\ cpc = "p_check"
    /\ IF IsEmptyAt(currentRead, writeIndex_)
       THEN /\ cpc' = "idle"
            /\ hist' = Append(hist, <<"poll", NoVal, 0>>)
            /\ nextRead' = nextRead
            /\ owed' = FALSE
       ELSE /\ cpc' = "p_move"
            /\ hist' = hist
            /\ nextRead' = NextRecord(currentRead)
            /\ owed' = owed
    /\ UNCHANGED <<requested, size_, records_, readIndex_, writeIndex_, prodvars, currentRead,
                   record, frontp, peek, numInstances, ub, destroyed>>
    /\ UNCHANGED <<gload, guessed, answered>>
    /\ UNCHANGED bqvars

\* record = std::move(records_[currentRead]); reading storage that holds no
\* constructed element yields any value
PollMove ==
    /\ cpc = "p_move"
    /\ IF IsLive(currentRead)
       THEN /\ record' = records_[currentRead].val
            /\ records_' = [records_ EXCEPT ![currentRead].val = NoVal]
            /\ ub' = ub
       ELSE /\ record' \in 0..MaxVal
            /\ records_' = records_
            /\ ub' = TRUE
    /\ cpc' = "p_dtor"
    /\ UNCHANGED <<requested, size_, readIndex_, writeIndex_, prodvars, currentRead, nextRead,
                   frontp, peek, hist, numInstances, destroyed>>
    /\ UNCHANGED <<gload, guessed, owed, answered>>
    /\ UNCHANGED bqvars

\* mutant of PollDestroy: poll does not run the destructor
PollNoDestroy ==
    /\ cpc = "p_dtor"
    /\ cpc' = "p_store"
    /\ UNCHANGED <<requested, size_, records_, readIndex_, writeIndex_, prodvars, currentRead, nextRead,
                   record, frontp, peek, hist, numInstances, ub, destroyed>>
    /\ UNCHANGED <<gload, guessed, owed, answered>>
    /\ UNCHANGED bqvars

\* records_[currentRead].~T()
PollDestroy ==
    /\ cpc = "p_dtor"
    /\ ub' = (ub \/ ~IsLive(currentRead))
    /\ records_' = [records_ EXCEPT ![currentRead] = [st |-> "dead", val |-> NoVal]]
    /\ numInstances' = numInstances - 1
    /\ cpc' = "p_store"
    /\ UNCHANGED <<requested, size_, readIndex_, writeIndex_, prodvars, currentRead, nextRead,
                   record, frontp, peek, hist, destroyed>>
    /\ UNCHANGED <<gload, guessed, owed, answered>>
    /\ UNCHANGED bqvars

\* readIndex_.store(nextRecord, release); return true
PollStore ==
    /\ cpc = "p_store"
    /\ readIndex_' = nextRead
    /\ cpc' = "idle"
    /\ hist' = Append(hist, <<"poll", record, 1>>)
    /\ UNCHANGED <<requested, size_, records_, writeIndex_, prodvars, currentRead, nextRead,
                   record, frontp, peek, numInstances, ub, destroyed>>
    /\ owed' = FALSE
    /\ UNCHANGED <<gload, guessed, answered>>
    /\ UNCHANGED bqvars

\* -------------------------------------------------- ring buffer: front_ptr
\* front_ptr is called; currentRead = readIndex_.load(relaxed)
FrontPtrCall ==
    /\ cpc = "idle" /\ ~destroyed
    /\ currentRead' = readIndex_
    /\ cpc' = "f_check"
    /\ UNCHANGED <<requested, size_, records_, readIndex_, writeIndex_, prodvars, nextRead, record,
                   frontp, peek, hist, numInstances, ub, destroyed>>
    /\ UNCHANGED <<gload, guessed, owed, answered>>
    /\ UNCHANGED bqvars

\* mutant of FrontPtrCheck: the address of the slot after currentRead is
\* returned
FrontPtrCheckNext ==
    /\ cpc = "f_check"
    /\ frontp' = IF IsEmptyAt(currentRead, writeIndex_) THEN Null ELSE NextRecord(currentRead)
    /\ cpc' = "idle"
    /\ UNCHANGED <<requested, size_, records_, readIndex_, writeIndex_, prodvars, currentRead,
                   nextRead, record, peek, hist, numInstances, ub, destroyed>>
    /\ UNCHANGED <<gload, guessed, owed, answered>>
    /\ UNCHANGED bqvars

\* if (currentRead == writeIndex_.load(acquire)) return nullptr;
\* return &records_[currentRead]
FrontPtrCheck ==
    /\ cpc = "f_check"
    /\ frontp' = IF IsEmptyAt(currentRead, writeIndex_) THEN Null ELSE currentRead
    /\ cpc' = "idle"
    /\ UNCHANGED <<requested, size_, records_, readIndex_, writeIndex_, prodvars, currentRead,
                   nextRead, record, peek, hist, numInstances, ub, destroyed>>
    /\ UNCHANGED <<gload, guessed, owed, answered>>
    /\ UNCHANGED bqvars

\* the consumer reads the element through the pointer front_ptr returned;
\* reading storage that holds no constructed element yields any value
FrontPtrRead ==
    /\ cpc = "idle" /\ ~destroyed
    /\ frontp # Null
    /\ IF IsLive(frontp)
       THEN peek' = records_[frontp].val /\ ub' = ub
       ELSE peek' \in 0..MaxVal /\ ub' = TRUE
    /\ UNCHANGED <<requested, size_, records_, readIndex_, writeIndex_, prodvars, cpc, currentRead,
                   nextRead, record, frontp, hist, numInstances, destroyed>>
    /\ UNCHANGED <<gload, guessed, owed, answered>>
    /\ UNCHANGED bqvars

\* ------------------------------------------------- ring buffer: destructor
\* while (read != end) { records_[read].~T(); if (++read == size_) read = 0; }
\* the slots the loop destroys, in order; it stops after `fuel` iterations
RECURSIVE DtorLoop(_, _, _)
DtorLoop(read, end, fuel) ==
    IF read = end \/ fuel = 0 THEN <<>>
    ELSE <<read>> \o DtorLoop(IF read + 1 = size_ THEN 0 ELSE read + 1, end, fuel - 1)

\* mutant of DtorSlots: the loop runs only while read < end, without wrapping
DtorSlotsNoWrap ==
    IF readIndex_ <= writeIndex_ THEN DtorLoop(readIndex_, writeIndex_, size_) ELSE <<>>

\* the slots ~producer_consumer_queue destroys
DtorSlots == DtorLoop(readIndex_, writeIndex_, size_)

InSeq(x, s) == \E k \in 1..Len(s) : s[k] = x

\* ~producer_consumer_queue, run when neither thread is inside a call
Destruct ==
    /\ ~destroyed /\ ppc = "idle" /\ cpc = "idle"
    /\ records_' = [i \in DOMAIN records_ |->
                      IF InSeq(i, DtorSlots) THEN [st |-> "dead", val |-> NoVal]
                      ELSE records_[i]]
    /\ ub' = (ub \/ \E k \in 1..Len(DtorSlots) : ~IsLive(DtorSlots[k]))
    /\ numInstances' = numInstances - Len(DtorSlots)
    /\ destroyed' = TRUE
    /\ frontp' = Null
    /\ hist' = Append(hist, <<"destroy", NoVal, Len(DtorSlots)>>)
    /\ UNCHANGED <<requested, size_, readIndex_, writeIndex_, prodvars, cpc, currentRead, nextRead,
                   record, peek>>
    /\ UNCHANGED <<gload, guessed, owed, answered>>
    /\ UNCHANGED bqvars

\* -------------------------------------------------- ring buffer: size_guess
\* the position of the calling thread
PcOf(who) == IF who = "p" THEN ppc ELSE cpc

\* the calling thread moves to position pc; the other thread stays
MovesTo(who, pc) ==
    IF who = "p" THEN ppc' = pc /\ cpc' = cpc ELSE cpc' = pc /\ ppc' = ppc

\* mutant of SizeGuessValue: the operands of the subtraction are swapped
SizeGuessSwapped(w, r) ==
    LET ret == r - w
    IN  IF ret < 0 THEN ret + size_ ELSE ret

\* mutant of SizeGuessValue: a negative difference is returned as it is
SizeGuessNoWrap(w, r) == w - r

\* int ret = write - read; if (ret < 0) ret += size_; return ret
\* write, read and size_ are unsigned: the difference is taken modulo
\* UintRange and converted to int, ret += size_ is computed unsigned and
\* converted to int, and the int returned is converted to size_t
SizeGuessValue(w, r) ==
    LET ret == ToInt(w - r)
    IN  IF ret < 0 THEN ToSizeT(ToInt(ret + size_)) ELSE ToSizeT(ret)

\* max_size(): return size_ - 1, computed in uint32_t
RingMaxSize == (size_ - 1) % UintRange

\* the elements constructed and not destroyed
LiveCount == Cardinality({i \in DOMAIN records_ : IsLive(i)})

\* the elements between the two indices as they are now
HeldCount == SizeGuessValue(writeIndex_, readIndex_)

\* size_guess is called by the producer thread or by the consumer thread
SizeGuessCall(who) ==
    /\ PcOf(who) = "idle" /\ ~destroyed
    /\ MovesTo(who, "g_load")
    /\ gload' = [gload EXCEPT ![who] = NotLoaded]
    /\ UNCHANGED <<requested, size_, records_, readIndex_, writeIndex_, currentWrite,
                   nextWrite, parg, currentRead, nextRead, record, frontp, peek, hist,
                   numInstances, ub, destroyed, guessed>>
    /\ UNCHANGED <<owed, answered>>
    /\ UNCHANGED bqvars

\* writeIndex_.load(acquire); the two loads are operands of one subtraction and
\* happen in either order
SizeGuessLoadWrite(who) ==
    /\ PcOf(who) = "g_load"
    /\ gload[who].w = Null
    /\ gload' = [gload EXCEPT ![who].w = writeIndex_]
    /\ UNCHANGED <<requested, size_, records_, readIndex_, writeIndex_, prodvars, consvars,
                   hist, numInstances, ub, destroyed, guessed>>
    /\ UNCHANGED <<owed, answered>>
    /\ UNCHANGED bqvars

\* readIndex_.load(acquire)
SizeGuessLoadRead(who) ==
    /\ PcOf(who) = "g_load"
    /\ gload[who].r = Null
    /\ gload' = [gload EXCEPT ![who].r = readIndex_]
    /\ UNCHANGED <<requested, size_, records_, readIndex_, writeIndex_, prodvars, consvars,
                   hist, numInstances, ub, destroyed, guessed>>
    /\ UNCHANGED <<owed, answered>>
    /\ UNCHANGED bqvars

\* the difference is corrected and returned
SizeGuessReturn(who) ==
    /\ PcOf(who) = "g_load"
    /\ gload[who].w # Null /\ gload[who].r # Null
    /\ guessed' = [by |-> who, ret |-> SizeGuessValue(gload[who].w, gload[who].r)]
    /\ gload' = [gload EXCEPT ![who] = NotLoaded]
    /\ MovesTo(who, "idle")
    /\ UNCHANGED <<requested, size_, records_, readIndex_, writeIndex_, currentWrite,
                   nextWrite, parg, currentRead, nextRead, record, frontp, peek, hist,
                   numInstances, ub, destroyed>>
    /\ UNCHANGED <<owed, answered>>
    /\ UNCHANGED bqvars

\* ------------------------- ring buffer: is_empty, is_full and max_size
\* a Boolean result as a number
Flag(b) == IF b THEN 1 ELSE 0

\* mutant of IsFullValue: the index after writeIndex_ is not wrapped
IsFullNoWrap(w, r) == w + 1 = r

\* is_full: nextRecord = write + 1; if (nextRecord == size_) nextRecord = 0;
\* if (nextRecord != read) return false; return true
IsFullValue(w, r) == NextRecord(w) = r

\* is_empty: return read == write
IsEmptyValue(r, w) == r = w

\* is_empty is called by the producer thread or by the consumer thread and
\* loads one index; the two loads are operands of one == and happen in either
\* order
IsEmptyCall(who, first) ==
    /\ PcOf(who) = "idle" /\ ~destroyed
    /\ MovesTo(who, "ie_second")
    /\ gload' = [gload EXCEPT ![who] =
                    IF first = "r" THEN [w |-> Null, r |-> readIndex_]
                    ELSE [w |-> writeIndex_, r |-> Null]]
    /\ UNCHANGED <<requested, size_, records_, readIndex_, writeIndex_, currentWrite,
                   nextWrite, parg, currentRead, nextRead, record, frontp, peek, hist,
                   numInstances, ub, destroyed, guessed, owed, answered>>
    /\ UNCHANGED bqvars

\* is_empty loads the other index and returns the comparison
IsEmptyReturn(who) ==
    /\ PcOf(who) = "ie_second"
    /\ LET r == IF gload[who].r = Null THEN readIndex_ ELSE gload[who].r
           w == IF gload[who].w = Null THEN writeIndex_ ELSE gload[who].w
       IN  answered' = [by |-> who, op |-> "is_empty", ret |-> Flag(IsEmptyValue(r, w))]
    /\ gload' = [gload EXCEPT ![who] = NotLoaded]
    /\ MovesTo(who, "idle")
    /\ UNCHANGED <<requested, size_, records_, readIndex_, writeIndex_, currentWrite,
                   nextWrite, parg, currentRead, nextRead, record, frontp, peek, hist,
                   numInstances, ub, destroyed, guessed, owed>>
    /\ UNCHANGED bqvars

\* is_full is called; writeIndex_.load(acquire), nextRecord computed
IsFullCall(who) ==
    /\ PcOf(who) = "idle" /\ ~destroyed
    /\ MovesTo(who, "if_check")
    /\ gload' = [gload EXCEPT ![who] = [w |-> writeIndex_, r |-> Null]]
    /\ UNCHANGED <<requested, size_, records_, readIndex_, writeIndex_, currentWrite,
                   nextWrite, parg, currentRead, nextRead, record, frontp, peek, hist,
                   numInstances, ub, destroyed, guessed, owed, answered>>
    /\ UNCHANGED bqvars

\* if (nextRecord != readIndex_.load(acquire)) return false; return true
IsFullCheck(who) ==
    /\ PcOf(who) = "if_check"
    /\ answered' = [by |-> who, op |-> "is_full",
                    ret |-> Flag(IsFullValue(gload[who].w, readIndex_))]
    /\ gload' = [gload EXCEPT ![who] = NotLoaded]
    /\ MovesTo(who, "idle")
    /\ UNCHANGED <<requested, size_, records_, readIndex_, writeIndex_, currentWrite,
                   nextWrite, parg, currentRead, nextRead, record, frontp, peek, hist,
                   numInstances, ub, destroyed, guessed, owed>>
    /\ UNCHANGED bqvars

\* max_size(): one step, no shared index is read
MaxSizeCall(who) ==
    /\ PcOf(who) = "idle" /\ ~destroyed
    /\ answered' = [by |-> who, op |-> "max_size", ret |-> RingMaxSize]
    /\ UNCHANGED <<requested, size_, records_, readIndex_, writeIndex_, prodvars, consvars,
                   hist, numInstances, ub, destroyed, gload, guessed, owed>>
    /\ UNCHANGED bqvars

\* ---------------------------------------------------- blocking queue: data
Threads == 1..NThreads

\* the sequences over Values of length at most n
RECURSIVE SeqsUpTo(_)
SeqsUpTo(n) ==
    IF n = 0 THEN {<<>>}
    ELSE LET shorter == SeqsUpTo(n - 1)
         IN  shorter \cup {Append(s, v) : s \in {x \in shorter : Len(x) = n - 1}, v \in Values}

Ranges == SeqsUpTo(MaxRange)

\* the operations that hold the mutex from their first to their last statement
GuardedOps == {"emplace", "emplace_range_rv", "emplace_range_lv", "poll", "consume",
               "unblock"}

\* the operations that hold the mutex and only read the queue
ObserverOps == {"is_blocking", "size"}

\* the positions of a thread at which it holds the mutex
LockedPcs == GuardedOps \cup ObserverOps \cup {"take", "t_recheck", "t_expired"}

\* the positions of a thread inside take
TakePcs == {"take", "t_wait", "t_woken", "t_timeout", "t_recheck", "t_expired"}

NoCall == [op |-> "none", ret |-> 0, out |-> NoVal, timed |-> FALSE]

Returned(op, ret, out, tmo) == [op |-> op, ret |-> ret, out |-> out, timed |-> tmo]

\* consume: size_t count = 0, and func not called yet
NoneConsumed == [visited |-> <<>>, count |-> 0]

\* blocking_queue(size_t max_size = 0); bool blocking = true
\* the queue as constructed, used by the threads ts
Constructed(ts) ==
    /\ max_size \in 0..MaxBound
    /\ delegate = <<>>
    /\ blocking = TRUE
    /\ mutex = 0
    /\ empty_cv = {}
    /\ bpc = [t \in ts |-> "idle"]
    /\ timed = [t \in ts |-> FALSE]
    /\ appended = <<>>
    /\ removed = <<>>
    /\ last = NoCall
    /\ unblocked = FALSE
    /\ consumed = NoneConsumed

BQInit == Constructed(Threads)

\* mutant of EmplaceBack: the element is put at the head
EmplaceFront(d, v) == <<v>> \o d

\* mutant of Front: the element at the tail is returned
Back(d) == d[Len(d)]

\* delegate.front()
Front(d) == Head(d)

\* mutant of PopFront: the element at the tail is removed
PopBack(d) == SubSeq(d, 1, Len(d) - 1)

\* delegate.pop_front()
PopFront(d) == Tail(d)

\* delegate.emplace_back(v)
EmplaceBack(d, v) == Append(d, v)

\* mutant of BelowBound: the bound is not looked at
BelowBoundAlways(size) == TRUE

\* mutant of BelowBound: the last place is never used
WellBelowBound(size) == max_size = 0 \/ size + 1 < max_size

\* mutant of BelowBound: the bound is compared with <=
AtOrBelowBound(size) == max_size = 0 \/ size <= max_size

\* emplace, emplace_range: 0 == max_size || size < max_size
BelowBound(size) == max_size = 0 \/ size < max_size

\* mutant of WasEmpty: the test is inverted
WasNotEmpty(size) == 0 # size

\* emplace: if (0 == size) notify_all
WasEmpty(size) == 0 = size

\* mutant of Notified: notify_one instead of notify_all
NotifiedOne == IF empty_cv = {} THEN {} ELSE {CHOOSE u \in empty_cv : TRUE}

\* mutant of Notified: the notification wakes nobody
NotifiedNone == {}

\* empty_cv.notify_all(): the threads it wakes, every thread suspended on empty_cv
Notified == empty_cv

\* a woken thread has to reacquire the mutex before its wait returns
NotifyAll(pcs) == [u \in DOMAIN pcs |-> IF u \in Notified THEN "t_woken" ELSE pcs[u]]

\* the threads inside empty_cv.wait / wait_for: suspended, or woken or timed
\* out and not yet holding the mutex again
InsideWait == {u \in DOMAIN bpc : bpc[u] \in {"t_wait", "t_woken", "t_timeout"}}

\* mutant of Predicate: the sequence is not looked at
PredicateFlagOnly == ~blocking

\* mutant of Predicate: the flag is not looked at
PredicateNoFlag == delegate # <<>>

\* take: the wait predicate, !blocking || !delegate.empty()
Predicate == ~blocking \/ delegate # <<>>

\* ------------------------------------------- blocking queue: lock acquisition
\* std::lock_guard<std::mutex> guard{mutex} at the start of operation op
Acquire(t, op) ==
    /\ bpc[t] = "idle"
    /\ mutex = 0
    /\ op \in {"emplace", "emplace_range_rv", "emplace_range_lv"} => Len(appended) < MaxAppend
    /\ mutex' = t
    /\ bpc' = [bpc EXCEPT ![t] = op]
    /\ UNCHANGED <<empty_cv, delegate, max_size, blocking, timed, appended, removed, last>>
    /\ UNCHANGED <<unblocked, consumed>>
    /\ UNCHANGED ringvars

\* take(record, timeout_millis): std::unique_lock<std::mutex> lock{mutex}
TakeAcquire(t, tmo) ==
    /\ bpc[t] = "idle"
    /\ mutex = 0
    /\ mutex' = t
    /\ bpc' = [bpc EXCEPT ![t] = "take"]
    /\ timed' = [timed EXCEPT ![t] = tmo]
    /\ UNCHANGED <<empty_cv, delegate, max_size, blocking, appended, removed, last>>
    /\ UNCHANGED <<unblocked, consumed>>
    /\ UNCHANGED ringvars

\* ---------------------------------------------------- blocking queue: emplace
\* the body of emplace; the guard is released on return
Emplace(t, v) ==
    /\ bpc[t] = "emplace"
    /\ LET size == Len(delegate) IN
       IF BelowBound(size)
       THEN /\ delegate' = EmplaceBack(delegate, v)
            /\ appended' = Append(appended, v)
            /\ IF WasEmpty(size)
               THEN /\ bpc' = [NotifyAll(bpc) EXCEPT ![t] = "idle"]
                    /\ empty_cv' = empty_cv \ Notified
               ELSE /\ bpc' = [bpc EXCEPT ![t] = "idle"]
                    /\ empty_cv' = empty_cv
            /\ last' = Returned("emplace", 1, NoVal, FALSE)
       ELSE /\ bpc' = [bpc EXCEPT ![t] = "idle"]
            /\ last' = Returned("emplace", 0, NoVal, FALSE)
            /\ UNCHANGED <<delegate, appended, empty_cv>>
    /\ mutex' = 0
    /\ UNCHANGED <<max_size, blocking, timed, removed>>
    /\ UNCHANGED <<unblocked, consumed>>
    /\ UNCHANGED ringvars

\* emplace_range(Range&&): for (auto&& el : range) { if (0 == max_size || size <
\* max_size) { delegate.emplace_back(std::move(el)); size += 1; } else break; }
\* the result is <<delegate, size>> after the loop
RECURSIVE RangeLoopRv(_, _, _)
RangeLoopRv(d, size, range) ==
    IF range = <<>> THEN <<d, size>>
    ELSE IF BelowBound(size)
         THEN RangeLoopRv(EmplaceBack(d, Head(range)), size + 1, Tail(range))
         ELSE <<d, size>>

\* emplace_range(Range&): for (auto& el : range) { if (0 == max_size ||
\* delegate.size() < max_size) delegate.emplace_back(el); else break; }
RECURSIVE RangeLoopLv(_, _)
RangeLoopLv(d, range) ==
    IF range = <<>> THEN d
    ELSE IF BelowBound(Len(d))
         THEN RangeLoopLv(EmplaceBack(d, Head(range)), Tail(range))
         ELSE d

\* emplace_range(Range&&): return delegate.size() - size
RangeResultRv(d, size) == Len(d) - size

\* emplace_range(Range&): return delegate.size() - origin_size
RangeResultLv(d, origin_size) == Len(d) - origin_size

\* the body of emplace_range(Range&&)
EmplaceRangeRv(t, range) ==
    /\ bpc[t] = "emplace_range_rv"
    /\ Len(appended) + Len(range) <= MaxAppend
    /\ LET res == RangeLoopRv(delegate, Len(delegate), range) IN
       /\ delegate' = res[1]
       /\ appended' = appended \o SubSeq(res[1], Len(delegate) + 1, Len(res[1]))
       /\ last' = Returned("emplace_range_rv", RangeResultRv(res[1], res[2]), NoVal, FALSE)
    /\ bpc' = [bpc EXCEPT ![t] = "idle"]
    /\ mutex' = 0
    /\ UNCHANGED <<empty_cv, max_size, blocking, timed, removed>>
    /\ UNCHANGED <<unblocked, consumed>>
    /\ UNCHANGED ringvars

\* the body of emplace_range(Range&)
EmplaceRangeLv(t, range) ==
    /\ bpc[t] = "emplace_range_lv"
    /\ Len(appended) + Len(range) <= MaxAppend
    /\ LET d == RangeLoopLv(delegate, range) IN
       /\ delegate' = d
       /\ appended' = appended \o SubSeq(d, Len(delegate) + 1, Len(d))
       /\ last' = Returned("emplace_range_lv", RangeResultLv(d, Len(delegate)), NoVal, FALSE)
    /\ bpc' = [bpc EXCEPT ![t] = "idle"]
    /\ mutex' = 0
    /\ UNCHANGED <<empty_cv, max_size, blocking, timed, removed>>
    /\ UNCHANGED <<unblocked, consumed>>
    /\ UNCHANGED ringvars

\* ------------------------------------------ blocking queue: poll and consume
\* the body of poll
Poll(t) ==
    /\ bpc[t] = "poll"
    /\ IF delegate # <<>>
       THEN /\ delegate' = PopFront(delegate)
            /\ removed' = Append(removed, Front(delegate))
            /\ last' = Returned("poll", 1, Front(delegate), FALSE)
       ELSE /\ last' = Returned("poll", 0, NoVal, FALSE)
            /\ UNCHANGED <<delegate, removed>>
    /\ bpc' = [bpc EXCEPT ![t] = "idle"]
    /\ mutex' = 0
    /\ UNCHANGED <<empty_cv, max_size, blocking, timed, appended>>
    /\ UNCHANGED <<unblocked, consumed>>
    /\ UNCHANGED ringvars

\* consume: while (!delegate.empty()) { record = front; pop_front; func(record);
\* count += 1; }  The result is <<delegate, the values passed to func in
\* order, count>> after the loop
RECURSIVE ConsumeLoop(_, _, _)
ConsumeLoop(d, visited, count) ==
    IF d = <<>> THEN <<d, visited, count>>
    ELSE ConsumeLoop(PopFront(d), Append(visited, Front(d)), count + 1)

\* the body of consume
Consume(t) ==
    /\ bpc[t] = "consume"
    /\ LET res == ConsumeLoop(delegate, <<>>, 0) IN
       /\ delegate' = res[1]
       /\ removed' = removed \o res[2]
       /\ last' = Returned("consume", res[3], NoVal, FALSE)
    /\ bpc' = [bpc EXCEPT ![t] = "idle"]
    /\ mutex' = 0
    /\ UNCHANGED <<empty_cv, max_size, blocking, timed, appended>>
    /\ UNCHANGED <<unblocked, consumed>>
    /\ UNCHANGED ringvars

\* consume, one iteration of its loop at a time.
\* mutant of ConsumeMore: the loop stops when one element is left
ConsumeMoreThanOne == Len(delegate) > 1

\* consume: the loop condition, !delegate.empty()
ConsumeMore == delegate # <<>>

\* one iteration: T record = std::move(delegate.front()); delegate.pop_front();
\* func(std::move(record)); count += 1.  The mutex stays held.
ConsumePop(t) ==
    /\ bpc[t] = "consume"
    /\ ConsumeMore
    /\ delegate' = PopFront(delegate)
    /\ removed' = Append(removed, Front(delegate))
    /\ consumed' = [visited |-> Append(consumed.visited, Front(delegate)),
                    count |-> consumed.count + 1]
    /\ UNCHANGED <<mutex, empty_cv, max_size, blocking, bpc, timed, appended, last, unblocked>>
    /\ UNCHANGED ringvars

\* the loop has ended: return count; the guard is released
ConsumeReturn(t) ==
    /\ bpc[t] = "consume"
    /\ ~ConsumeMore
    /\ last' = Returned("consume", consumed.count, NoVal, FALSE)
    /\ consumed' = NoneConsumed
    /\ bpc' = [bpc EXCEPT ![t] = "idle"]
    /\ mutex' = 0
    /\ UNCHANGED <<empty_cv, delegate, max_size, blocking, timed, appended, removed, unblocked>>
    /\ UNCHANGED ringvars

\* ------------------------------------------------------ blocking queue: take
\* mutant of TakeFinish: the head is popped but not handed over, and take
\* returns false
TakeFinishDrop(t) ==
    /\ IF delegate # <<>>
       THEN /\ delegate' = PopFront(delegate)
            /\ removed' = Append(removed, Front(delegate))
            /\ last' = Returned("take", 0, NoVal, timed[t])
       ELSE /\ last' = Returned("take", 0, NoVal, timed[t])
            /\ UNCHANGED <<delegate, removed>>
    /\ bpc' = [bpc EXCEPT ![t] = "idle"]
    /\ timed' = [timed EXCEPT ![t] = FALSE]
    /\ mutex' = 0
    /\ empty_cv' = empty_cv

\* take: if (!delegate.empty()) { record = front; pop_front; return true; }
\* else return false;  the lock is released on return
TakeFinish(t) ==
    /\ IF delegate # <<>>
       THEN /\ delegate' = PopFront(delegate)
            /\ removed' = Append(removed, Front(delegate))
            /\ last' = Returned("take", 1, Front(delegate), timed[t])
       ELSE /\ last' = Returned("take", 0, NoVal, timed[t])
            /\ UNCHANGED <<delegate, removed>>
    /\ bpc' = [bpc EXCEPT ![t] = "idle"]
    /\ timed' = [timed EXCEPT ![t] = FALSE]
    /\ mutex' = 0
    /\ empty_cv' = empty_cv

\* mutant of TakeSuspend: the thread is suspended holding the mutex
TakeSuspendHolding(t) ==
    /\ bpc' = [bpc EXCEPT ![t] = "t_wait"]
    /\ empty_cv' = empty_cv \cup {t}
    /\ mutex' = mutex
    /\ UNCHANGED <<delegate, removed, last, timed>>

\* empty_cv.wait / wait_for: the mutex is released and the thread suspended
TakeSuspend(t) ==
    /\ bpc' = [bpc EXCEPT ![t] = "t_wait"]
    /\ empty_cv' = empty_cv \cup {t}
    /\ mutex' = 0
    /\ UNCHANGED <<delegate, removed, last, timed>>

\* take from its first statement: pop if not empty; else wait while the
\* predicate is false; then the final check
Take(t) ==
    /\ bpc[t] = "take"
    /\ IF delegate # <<>> \/ Predicate
       THEN TakeFinish(t)
       ELSE TakeSuspend(t)
    /\ UNCHANGED <<max_size, blocking, appended>>
    /\ UNCHANGED <<unblocked, consumed>>
    /\ UNCHANGED ringvars

\* the wait of a take called with timeout_millis >= 0 times out
TakeTimeout(t) ==
    /\ bpc[t] = "t_wait"
    /\ timed[t]
    /\ bpc' = [bpc EXCEPT ![t] = "t_timeout"]
    /\ empty_cv' = empty_cv \ {t}
    /\ UNCHANGED <<mutex, delegate, max_size, blocking, timed, appended, removed, last>>
    /\ UNCHANGED <<unblocked, consumed>>
    /\ UNCHANGED ringvars

\* a suspended thread wakes up without a notify
SpuriousWakeup(t) ==
    /\ bpc[t] = "t_wait"
    /\ bpc' = [bpc EXCEPT ![t] = "t_woken"]
    /\ empty_cv' = empty_cv \ {t}
    /\ UNCHANGED <<mutex, delegate, max_size, blocking, timed, appended, removed, last>>
    /\ UNCHANGED <<unblocked, consumed>>
    /\ UNCHANGED ringvars

\* a woken or timed-out thread reacquires the mutex inside wait / wait_for
TakeReacquire(t) ==
    /\ bpc[t] \in {"t_woken", "t_timeout"}
    /\ mutex = 0
    /\ mutex' = t
    /\ bpc' = [bpc EXCEPT ![t] = IF bpc[t] = "t_woken" THEN "t_recheck" ELSE "t_expired"]
    /\ UNCHANGED <<empty_cv, delegate, max_size, blocking, timed, appended, removed, last>>
    /\ UNCHANGED <<unblocked, consumed>>
    /\ UNCHANGED ringvars

\* mutant of TakeRecheck: after a wakeup the predicate is not evaluated again
TakeRecheckOnce(t) ==
    /\ bpc[t] = "t_recheck"
    /\ TakeFinish(t)
    /\ UNCHANGED <<max_size, blocking, appended>>
    /\ UNCHANGED <<unblocked, consumed>>
    /\ UNCHANGED ringvars

\* after a wakeup the wait re-evaluates the predicate: wait again while it is
\* false, else go on to the final check
TakeRecheck(t) ==
    /\ bpc[t] = "t_recheck"
    /\ IF Predicate
       THEN TakeFinish(t)
       ELSE TakeSuspend(t)
    /\ UNCHANGED <<max_size, blocking, appended>>
    /\ UNCHANGED <<unblocked, consumed>>
    /\ UNCHANGED ringvars

\* after a timeout wait_for returns the predicate's value, which take ignores,
\* and take goes on to the final check
TakeExpired(t) ==
    /\ bpc[t] = "t_expired"
    /\ TakeFinish(t)
    /\ UNCHANGED <<max_size, blocking, appended>>
    /\ UNCHANGED <<unblocked, consumed>>
    /\ UNCHANGED ringvars

\* --------------------------------------------------- blocking queue: unblock
\* mutant of Unblock: the buffered elements are dropped
UnblockClears(t) ==
    /\ bpc[t] = "unblock"
    /\ blocking' = FALSE
    /\ delegate' = <<>>
    /\ bpc' = [NotifyAll(bpc) EXCEPT ![t] = "idle"]
    /\ empty_cv' = empty_cv \ Notified
    /\ last' = Returned("unblock", 0, NoVal, FALSE)
    /\ mutex' = 0
    /\ unblocked' = TRUE
    /\ UNCHANGED consumed
    /\ UNCHANGED <<max_size, timed, appended, removed>>
    /\ UNCHANGED ringvars

\* mutant of Unblock: the flag is flipped instead of cleared
UnblockToggle(t) ==
    /\ bpc[t] = "unblock"
    /\ blocking' = ~blocking
    /\ IF delegate = <<>>
       THEN /\ bpc' = [NotifyAll(bpc) EXCEPT ![t] = "idle"]
            /\ empty_cv' = empty_cv \ Notified
       ELSE /\ bpc' = [bpc EXCEPT ![t] = "idle"]
            /\ empty_cv' = empty_cv
    /\ last' = Returned("unblock", 0, NoVal, FALSE)
    /\ mutex' = 0
    /\ unblocked' = TRUE
    /\ UNCHANGED consumed
    /\ UNCHANGED <<delegate, max_size, timed, appended, removed>>
    /\ UNCHANGED ringvars

\* mutant of Unblock: notify_all is called whether the sequence is empty or not
UnblockNotifyAlways(t) ==
    /\ bpc[t] = "unblock"
    /\ blocking' = FALSE
    /\ bpc' = [NotifyAll(bpc) EXCEPT ![t] = "idle"]
    /\ empty_cv' = empty_cv \ Notified
    /\ last' = Returned("unblock", 0, NoVal, FALSE)
    /\ mutex' = 0
    /\ UNCHANGED <<delegate, max_size, timed, appended, removed>>
    /\ unblocked' = TRUE
    /\ UNCHANGED consumed
    /\ UNCHANGED ringvars

\* the body of unblock
Unblock(t) ==
    /\ bpc[t] = "unblock"
    /\ blocking' = FALSE
    /\ IF delegate = <<>>
       THEN /\ bpc' = [NotifyAll(bpc) EXCEPT ![t] = "idle"]
            /\ empty_cv' = empty_cv \ Notified
       ELSE /\ bpc' = [bpc EXCEPT ![t] = "idle"]
            /\ empty_cv' = empty_cv
    /\ last' = Returned("unblock", 0, NoVal, FALSE)
    /\ mutex' = 0
    /\ UNCHANGED <<delegate, max_size, timed, appended, removed>>
    /\ unblocked' = TRUE
    /\ UNCHANGED consumed
    /\ UNCHANGED ringvars

\* ------------------------------------------------- blocking queue: observers
\* the body of is_blocking: return blocking
IsBlocking(t) ==
    /\ bpc[t] = "is_blocking"
    /\ last' = Returned("is_blocking", IF blocking THEN 1 ELSE 0, NoVal, FALSE)
    /\ bpc' = [bpc EXCEPT ![t] = "idle"]
    /\ mutex' = 0
    /\ UNCHANGED <<empty_cv, delegate, max_size, blocking, timed, appended, removed>>
    /\ UNCHANGED <<unblocked, consumed>>
    /\ UNCHANGED ringvars

\* the body of size: return delegate.size()
Size(t) ==
    /\ bpc[t] = "size"
    /\ last' = Returned("size", Len(delegate), NoVal, FALSE)
    /\ bpc' = [bpc EXCEPT ![t] = "idle"]
    /\ mutex' = 0
    /\ UNCHANGED <<empty_cv, delegate, max_size, blocking, timed, appended, removed>>
    /\ UNCHANGED <<unblocked, consumed>>
    /\ UNCHANGED ringvars

\* ------------------------------------------------------ blocking queue: spec
BQNext ==
    \E t \in Threads :
        \/ \E op \in GuardedOps : Acquire(t, op)
        \/ \E tmo \in BOOLEAN : TakeAcquire(t, tmo)
        \/ \E v \in Values : Emplace(t, v)
        \/ \E range \in Ranges : EmplaceRangeRv(t, range)
        \/ \E range \in Ranges : EmplaceRangeLv(t, range)
        \/ Poll(t)
        \/ Consume(t)
        \/ Take(t)
        \/ TakeTimeout(t)
        \/ SpuriousWakeup(t)
        \/ TakeReacquire(t)
        \/ TakeRecheck(t)
        \/ TakeExpired(t)
        \/ Unblock(t)

\* the blocking queue alone: the ring buffer stays as constructed
InitBQ == BQInit /\ RingInit /\ requested = 1

SpecBQ == InitBQ /\ [][BQNext]_vars

\* ------------------------------- blocking queue: producers and waiting takers
\* Thread 1 is the producer and only calls emplace, until MaxAppend elements
\* are in; the other threads are consumers and only call take with a negative
\* timeout, MaxAppend times in all.  unblock is never called.
Producers == {1}

Consumers == Threads \ Producers

TakesStarted == Len(removed) + Cardinality({t \in Threads : bpc[t] \in TakePcs})

\* the producer calls emplace
EmplaceMore(t) ==
    /\ t \in Producers
    /\ Acquire(t, "emplace")

\* a consumer calls take(record) with the default timeout_millis = -1
TakeForever(t) ==
    /\ t \in Consumers
    /\ TakesStarted < MaxAppend
    /\ TakeAcquire(t, FALSE)

\* the steps of thread t that the scheduler eventually lets it take
Progress(t) ==
    \/ EmplaceMore(t)
    \/ \E v \in Values : Emplace(t, v)
    \/ Take(t)
    \/ TakeReacquire(t)
    \/ TakeRecheck(t)

WaitNext ==
    \E t \in Threads :
        \/ EmplaceMore(t)
        \/ \E v \in Values : Emplace(t, v)
        \/ TakeForever(t)
        \/ Take(t)
        \/ SpuriousWakeup(t)
        \/ TakeReacquire(t)
        \/ TakeRecheck(t)

\* every thread that can take a step infinitely often does take one (threads
\* run in parallel, and a thread contending for the mutex gets it in the end)
SpecBQWait == InitBQ /\ [][WaitNext]_vars /\ \A t \in Threads : SF_vars(Progress(t))

\* ------------------------- blocking queue: a sole consumer with a timeout
\* a taker's steps inside take that do not depend on a timer or on chance
TakerStep(t) ==
    \/ Take(t)
    \/ TakeReacquire(t)
    \/ TakeRecheck(t)
    \/ TakeExpired(t)

\* Thread 1 calls emplace; thread 2 is the only consumer and calls take with a
\* timeout_millis >= 0.  unblock is never called.
SoleConsumer == 2

\* the consumer calls take(record, timeout_millis) with timeout_millis >= 0
TakeTimed(t) ==
    /\ t = SoleConsumer
    /\ TakeAcquire(t, TRUE)

TimedNext ==
    \/ \E t \in Producers :
          \/ EmplaceMore(t)
          \/ \E v \in Values : Emplace(t, v)
    \/ \E t \in {SoleConsumer} :
          \/ TakeTimed(t)
          \/ Take(t)
          \/ TakeTimeout(t)
          \/ SpuriousWakeup(t)
          \/ TakeReacquire(t)
          \/ TakeRecheck(t)
          \/ TakeExpired(t)

\* a thread inside a call goes on running, the mutex is granted in the end, and
\* the timer of wait_for runs out (its deadline is fixed when wait_for is
\* called, so wakeups in between do not put it off); nothing obliges a thread
\* to start a call
SpecBQTimed ==
    /\ InitBQ
    /\ [][TimedNext]_vars
    /\ \A t \in Producers : WF_vars(\E v \in Values : Emplace(t, v))
    /\ SF_vars(TakerStep(SoleConsumer))
    /\ SF_vars(TakeTimeout(SoleConsumer))

\* ----------------------------- blocking queue: an owner and waiting takers
\* Thread 1 owns the queue: it fills it, drains it and unblocks it.  The other
\* NTakers threads call take, with or without a timeout.
Owner == 1

Takers == 2..(NTakers + 1)

\* the owner calls emplace, emplace_range, poll, consume, unblock, is_blocking
\* or size
OwnerCall(op) == Acquire(Owner, op)

\* a taker calls take(record, timeout_millis)
TakerCall(t, tmo) ==
    /\ t \in Takers
    /\ TakeAcquire(t, tmo)

\* the owner numbers the elements it adds: the value of the i-th one
Numbered(i) == ((i - 1) % MaxVal) + 1

\* the next k elements the owner adds
NumberedRange(k) == [i \in 1..k |-> Numbered(Len(appended) + i)]

\* the owner's steps inside a call: it holds the mutex and runs to the return
OwnerStep ==
    \/ Emplace(Owner, Numbered(Len(appended) + 1))
    \/ \E k \in 0..MaxRange : EmplaceRangeRv(Owner, NumberedRange(k))
    \/ \E k \in 0..MaxRange : EmplaceRangeLv(Owner, NumberedRange(k))
    \/ Poll(Owner)
    \/ Consume(Owner)
    \/ Unblock(Owner)
    \/ IsBlocking(Owner)
    \/ Size(Owner)

UnblockNext ==
    \/ \E op \in GuardedOps \cup ObserverOps : OwnerCall(op)
    \/ OwnerStep
    \/ \E t \in Takers :
          \/ \E tmo \in BOOLEAN : TakerCall(t, tmo)
          \/ TakerStep(t)
          \/ TakeTimeout(t)
          \/ SpuriousWakeup(t)

InitUnblock == Constructed({Owner} \cup Takers) /\ RingInit /\ requested = 1

\* a thread inside a call goes on running, a thread contending for the mutex
\* gets it in the end, and a timer runs out; nothing obliges a thread to start
\* a call, and nothing obliges a wakeup without a notify to happen
SpecBQUnblock ==
    /\ InitUnblock
    /\ [][UnblockNext]_vars
    /\ WF_vars(OwnerStep)
    /\ \A t \in Takers : SF_vars(TakerStep(t)) /\ SF_vars(TakeTimeout(t))

\* the same threads, with unblock called only while the sequence is empty
OwnerCallOnEmpty(op) ==
    /\ op = "unblock" => delegate = <<>>
    /\ Acquire(Owner, op)

UnblockEmptyNext ==
    \/ \E op \in GuardedOps \cup ObserverOps : OwnerCallOnEmpty(op)
    \/ OwnerStep
    \/ \E t \in Takers :
          \/ \E tmo \in BOOLEAN : TakerCall(t, tmo)
          \/ TakerStep(t)
          \/ TakeTimeout(t)
          \/ SpuriousWakeup(t)

\* a thread inside a call goes on running and a thread contending for the mutex
\* gets it in the end; no timer is relied on
SpecBQUnblockEmpty ==
    /\ InitUnblock
    /\ [][UnblockEmptyNext]_vars
    /\ WF_vars(OwnerStep)
    /\ \A t \in Takers : SF_vars(TakerStep(t))

\* ------------------------------ blocking queue: every call, numbered elements
\* Every thread calls every operation, in any order; the elements added are
\* numbered in the order of their appending; consume runs its loop one
\* iteration at a time.
AllOpsNext ==
    \E t \in Threads :
        \/ \E op \in GuardedOps \cup ObserverOps : Acquire(t, op)
        \/ \E tmo \in BOOLEAN : TakeAcquire(t, tmo)
        \/ Emplace(t, Numbered(Len(appended) + 1))
        \/ \E k \in 0..MaxRange : EmplaceRangeRv(t, NumberedRange(k))
        \/ \E k \in 0..MaxRange : EmplaceRangeLv(t, NumberedRange(k))
        \/ Poll(t)
        \/ ConsumePop(t)
        \/ ConsumeReturn(t)
        \/ Take(t)
        \/ TakeTimeout(t)
        \/ SpuriousWakeup(t)
        \/ TakeReacquire(t)
        \/ TakeRecheck(t)
        \/ TakeExpired(t)
        \/ Unblock(t)
        \/ IsBlocking(t)
        \/ Size(t)

SpecBQAllOps == InitBQ /\ [][AllOpsNext]_vars

\* ------------------------------------------------------- ring buffer: spec
Producer ==
    \/ \E v \in Values : EmplaceCall(v)
    \/ EmplaceCheck
    \/ EmplaceConstructBegin
    \/ EmplaceConstructEnd
    \/ EmplaceStore

Consumer ==
    \/ PollCall
    \/ PollCheck
    \/ PollMove
    \/ PollDestroy
    \/ PollStore
    \/ FrontPtrCall
    \/ FrontPtrCheck
    \/ FrontPtrRead

RingNext == Producer \/ Consumer \/ Destruct

\* the ring buffer alone: the blocking queue stays as constructed
InitRing == RingInit /\ BQInit /\ max_size = 0

SpecRing == InitRing /\ [][RingNext]_vars

\* the producer calls emplace and the consumer calls poll, and each of them
\* calls size_guess between its calls; the producer numbers its elements
SizeProducer ==
    \/ EmplaceCall(Numbered(Len(hist) + 1))
    \/ EmplaceCheck
    \/ EmplaceConstructBegin
    \/ EmplaceConstructEnd
    \/ EmplaceStore

SizeConsumer ==
    \/ PollCall
    \/ PollCheck
    \/ PollMove
    \/ PollDestroy
    \/ PollStore

SizeGuess(who) ==
    \/ SizeGuessCall(who)
    \/ SizeGuessLoadWrite(who)
    \/ SizeGuessLoadRead(who)
    \/ SizeGuessReturn(who)

RingSizeNext == SizeProducer \/ SizeConsumer \/ \E who \in {"p", "c"} : SizeGuess(who)

SpecRingSize == InitRing /\ [][RingSizeNext]_vars

\* every operation of the ring buffer: the producer calls emplace, the consumer
\* calls poll and front_ptr, and each of them calls is_empty, is_full,
\* size_guess and max_size between its calls
IsEmpty(who) ==
    \/ \E first \in {"r", "w"} : IsEmptyCall(who, first)
    \/ IsEmptyReturn(who)

IsFull(who) ==
    \/ IsFullCall(who)
    \/ IsFullCheck(who)

FrontPtr ==
    \/ FrontPtrCall
    \/ FrontPtrCheck

Observer(who) ==
    \/ SizeGuess(who)
    \/ IsEmpty(who)
    \/ IsFull(who)
    \/ MaxSizeCall(who)

\* emplace and poll are called MaxBusy times in all
BusyProducer == (ppc = "idle" => CallsStarted < MaxBusy) /\ SizeProducer

BusyConsumer == (cpc = "idle" => CallsStarted < MaxBusy) /\ SizeConsumer

RingOpsNext ==
    \/ BusyProducer
    \/ BusyConsumer
    \/ FrontPtr
    \/ \E who \in {"p", "c"} : Observer(who)

SpecRingOps == InitRing /\ [][RingOpsNext]_vars

\* every operation of the ring buffer, the calls made one after the other: a
\* call starts only when the other thread is not inside a call
QuietProducer == cpc = "idle" /\ (SizeProducer \/ Observer("p"))

QuietConsumer == ppc = "idle" /\ (SizeConsumer \/ FrontPtr \/ Observer("c"))

RingQuietNext == QuietProducer \/ QuietConsumer

SpecRingQuiet == InitRing /\ [][RingQuietNext]_vars

\* A program that uses one of the two queues: the ring buffer with its
\* producer and consumer, or the blocking queue with an owner and takers, the
\* other queue staying as constructed.  The queues share no state.
RingFresh == ppc = "idle" /\ cpc = "idle" /\ hist = <<>> /\ guessed = NoGuess

BQFresh == last = NoCall /\ \A t \in DOMAIN bpc : bpc[t] = "idle"

RingSide == BQFresh /\ max_size = 0 /\ RingSizeNext

BQSide == RingFresh /\ requested = 1 /\ UnblockNext

SizesNext == RingSide \/ BQSide

InitSizes == RingInit /\ Constructed({Owner} \cup Takers)

SpecSizes == InitSizes /\ [][SizesNext]_vars

\* the calls made one after the other: a call starts only when the other
\* thread is not inside a call
SeqProducer == cpc = "idle" /\ Producer

SeqConsumer == ppc = "idle" /\ Consumer

RingSeqNext == SeqProducer \/ SeqConsumer \/ Destruct

SpecRingSeq == InitRing /\ [][RingSeqNext]_vars

\* ================================================================== claims
\* ------------------------------------------------------------- ring buffer
IsPrefix(s, t) == Len(s) <= Len(t) /\ SubSeq(t, 1, Len(s)) = s

\* the slots of the circular range [from, to), in order
RECURSIVE CircularRange(_, _, _)
CircularRange(from, to, fuel) ==
    IF from = to \/ fuel = 0 THEN <<>>
    ELSE <<from>> \o CircularRange((from + 1) % size_, to, fuel - 1)

\* the values held by the slots of [readIndex_, writeIndex_), in order
Contents ==
    LET slots == CircularRange(readIndex_, writeIndex_, size_)
    IN  [k \in 1..Len(slots) |-> records_[slots[k]].val]

\* C1: ring buffer FIFO.  Under every interleaving of the producer's and the
\* consumer's steps, the values successful polls returned are a prefix of the
\* values successful emplaces were given, in the same order; whenever neither
\* thread is inside a call, the emplaced values are exactly the polled ones
\* followed by the elements still in the buffer (nothing lost, nothing
\* delivered twice), so once everything is polled the two sequences are equal.
C1_RingFifo ==
    /\ IsPrefix(polled, emplaced)
    /\ (ppc = "idle" /\ cpc = "idle" /\ ~destroyed) => emplaced = polled \o Contents
    /\ (ppc = "idle" /\ cpc = "idle" /\ ~destroyed /\ readIndex_ = writeIndex_)
           => polled = emplaced

\* C1 witness: two different values have gone through a buffer of two slots,
\* and the producer is constructing the third element (its cursor wraps)
\* while the consumer is inside poll.
C1_Witness ==
    /\ requested = 1
    /\ Len(polled) = 2 /\ polled[1] # polled[2]
    /\ ppc = "e_ctor" /\ currentWrite = 0 /\ cpc = "p_check"

\* the producer has chosen slot i and is constructing into it
ProducerIn(i) == ppc \in {"e_new", "e_ctor"} /\ currentWrite = i

\* the consumer has chosen slot i and is moving out of it or destroying it
ConsumerIn(i) == cpc \in {"p_move", "p_dtor"} /\ currentRead = i

\* C2: ring buffer slot exclusivity.  In every interleaving, no access has
\* undefined behaviour: poll and a read through front_ptr's pointer only read
\* a slot whose construction has completed, emplace only constructs into a
\* slot that holds no element, and no slot is worked on by both threads at
\* the same time.
C2_SlotExclusive ==
    /\ ~ub
    /\ ConsumerIn(currentRead) => IsLive(currentRead)
    /\ frontp # Null => IsLive(frontp)
    /\ ppc = "e_new" => records_[currentWrite].st \in {"raw", "dead"}
    /\ \A i \in DOMAIN records_ : ~(ProducerIn(i) /\ ConsumerIn(i))

\* C2 witness: the producer is constructing into a slot that poll destroyed
\* earlier while the consumer is moving an element out of the other slot.
C2_Witness ==
    /\ ppc = "e_ctor" /\ cpc = "p_dtor"
    /\ currentWrite # currentRead
    /\ Len(polled) >= 1
    /\ frontp = Null

\* C3: ring buffer capacity boundary, the calls made one after the other.
\* As long as no poll was called, the k-th emplace returned true exactly when
\* k <= N; and when the buffer was filled, one poll returned true and only
\* emplace calls followed, the first of them returned true and the others
\* false.
C3_RingCapacity ==
    /\ (\A k \in 1..Len(hist) : hist[k][1] = "emplace")
           => \A k \in 1..Len(hist) : hist[k][3] = (IF k <= requested THEN 1 ELSE 0)
    /\ \A m \in 1..Len(hist) :
           (/\ m > requested
            /\ hist[m][1] = "poll" /\ hist[m][3] = 1
            /\ \A k \in 1..Len(hist) : k # m => hist[k][1] = "emplace")
           => \A k \in (m + 1)..Len(hist) : hist[k][3] = (IF k = m + 1 THEN 1 ELSE 0)

\* C3 witness: N emplaces returned true, the next false; then a poll returned
\* true, one more emplace true and the emplace after it false.
C3_Witness ==
    /\ Len(hist) = requested + 4
    /\ hist[requested + 1][3] = 0
    /\ hist[requested + 2][1] = "poll" /\ hist[requested + 2][3] = 1
    /\ hist[requested + 3][1] = "emplace" /\ hist[requested + 3][3] = 1
    /\ hist[requested + 4][1] = "emplace" /\ hist[requested + 4][3] = 0

\* slot i lies in the half-open circular range [readIndex_, writeIndex_)
InRange(i) ==
    IF readIndex_ <= writeIndex_
    THEN readIndex_ <= i /\ i < writeIndex_
    ELSE i >= readIndex_ \/ i < writeIndex_

\* C4 as claimed: in every reachable state of the ring buffer a slot holds a
\* live element iff it lies in [readIndex_, writeIndex_).
C4_LiveIffInRange ==
    ~destroyed => \A i \in DOMAIN records_ : IsLive(i) <=> InRange(i)

\* C4 amended: a slot holds a live element iff it lies in [readIndex_,
\* writeIndex_) and poll has not just destroyed it (readIndex_ not stored
\* yet), or emplace has just constructed it (writeIndex_ not stored yet).
C4_LiveIffInRangeOrInFlight ==
    ~destroyed =>
        \A i \in DOMAIN records_ :
            IsLive(i) <=> \/ InRange(i) /\ ~(cpc = "p_store" /\ currentRead = i)
                          \/ ppc = "e_store" /\ currentWrite = i

\* C4 witness: an element is constructed but not published (live, outside
\* the range) while another is destroyed but not released (dead, inside it).
C4_Witness ==
    /\ ppc = "e_store" /\ cpc = "p_store"
    /\ IsLive(currentWrite) /\ ~InRange(currentWrite)
    /\ ~IsLive(currentRead) /\ InRange(currentRead)

\* C5: ring buffer destruction drains.  The destructor destroys exactly the
\* slots that hold a live element, each once: it has no undefined behaviour,
\* afterwards no slot holds an element and as many destructors as
\* constructors have run, and it destroyed one slot for every element
\* emplaced and not polled.
C5_DestructorDrains ==
    destroyed =>
        /\ ~ub
        /\ numInstances = 0
        /\ \A i \in DOMAIN records_ : ~IsLive(i)
        /\ hist[Len(hist)] = <<"destroy", NoVal, Len(emplaced) - Len(polled)>>

\* C5 witness: the destructor ran with write_cursor wrapped past zero and
\* read_cursor not (write below read) and destroyed two elements.
C5_Witness ==
    /\ destroyed
    /\ writeIndex_ < readIndex_
    /\ hist[Len(hist)] = <<"destroy", NoVal, 2>>
    /\ Len(polled) >= 1

\* ---------------------------------------------------------- blocking queue
\* C6: blocking queue exactly-once delivery.  Under every interleaving of any
\* threads' calls, the elements appended so far are exactly the elements
\* removed so far followed by the elements still in the queue: every removed
\* element was appended, none is removed twice, none is lost, and when as many
\* were removed as appended the queue is empty.
C6_ExactlyOnce ==
    /\ appended = removed \o delegate
    /\ Len(removed) = Len(appended) => delegate = <<>>

\* C6 witness: two different elements were appended and both removed, the
\* last by a take, while another thread is inside take as well.
C6_Witness ==
    /\ Len(appended) = 2 /\ appended[1] # appended[2]
    /\ Len(removed) = 2
    /\ last.op = "take" /\ last.ret = 1
    /\ \E t \in Threads : bpc[t] \in {"t_wait", "t_woken"}

C8_Capacity == max_size > 0 => Len(delegate) <= max_size

\* C8 witness: the queue is bounded and full again after an emplace_range
\* that put in as many elements as the bound allows.
C8_Witness ==
    /\ max_size > 0 /\ Len(delegate) = max_size
    /\ last.op = "emplace_range_lv" /\ last.ret = max_size
    /\ Len(appended) > max_size

\* C9: blocking queue capacity boundary.  With bound K > 0 an emplace returns
\* false exactly when K elements more were appended than removed: with no
\* removal the first K emplace calls return true and the next false, and
\* after one removal one more emplace returns true.
C9_CapacityBoundary ==
    (max_size > 0 /\ last.op = "emplace") =>
        /\ last.ret = 1 => Len(appended) - Len(removed) <= max_size
        /\ last.ret = 0 => Len(appended) - Len(removed) = max_size

\* C9 witness: after K elements were accepted and one was removed, one more
\* emplace has returned true.
C9_Witness ==
    /\ max_size > 0
    /\ last.op = "emplace" /\ last.ret = 1
    /\ Len(removed) = 1 /\ Len(appended) = max_size + 1

\* C10: blocking queue FIFO.  The values removed, in the order in which the
\* removals held the mutex, are always a prefix of the values appended in the
\* order of appending, and every removal takes elements off the head of the
\* sequence: poll and take the head itself, which they return, consume the
\* whole sequence from the head on.
C10_Fifo ==
    /\ [](IsPrefix(removed, appended))
    /\ [][removed' # removed =>
            \E n \in 1..Len(delegate) :
                /\ removed' = removed \o SubSeq(delegate, 1, n)
                /\ delegate' = SubSeq(delegate, n + 1, Len(delegate))
                /\ last'.op \in {"poll", "take"} => n = 1 /\ last'.out = delegate[1]
                /\ last'.op = "consume" => n = Len(delegate) /\ last'.ret = n]_vars

\* C10 witness: two different elements were appended, the first was removed
\* by a poll and the second is still in the queue.
C10_Witness ==
    /\ Len(appended) = 2 /\ appended[1] # appended[2]
    /\ removed = <<appended[1]>>
    /\ last.op = "poll" /\ last.out = appended[1]
    /\ delegate = <<appended[2]>>

\* ------------------------------------------------ claims: unblock and waiting
\* thread t returns from the call it is in
Returns(t) == bpc[t] # "idle" /\ bpc'[t] = "idle"

\* thread t returns from take with result ret
TakeReturns(t, ret) ==
    /\ Returns(t)
    /\ last'.op = "take"
    /\ last'.ret = ret

\* the positions of a take that has been inside its wait and has not returned
WaitPcs == {"t_wait", "t_woken", "t_timeout", "t_recheck", "t_expired"}

\* no thread is suspended by a step taken after unblock has returned
NoSuspendAfterUnblock == unblocked => empty_cv' \subseteq empty_cv

\* a take started after unblock on a sequence that is still empty returns false
\* at once
LateTakeReturnsFalse ==
    \A t \in DOMAIN bpc :
        (bpc[t] = "take" /\ unblocked /\ delegate = <<>> /\ bpc'[t] # bpc[t])
            => TakeReturns(t, 0)

\* Where unblock is called only on the empty sequence, a take found at one of
\* WaitPcs after unblock has returned entered its wait before unblock ran (no
\* take suspends afterwards): it is one of the takes that were inside their
\* waits when unblock ran on the empty sequence.
Released(t) == unblocked /\ bpc[t] \in WaitPcs

\* C11 as stated: unblock on an empty sequence makes every take that is inside
\* its wait at that moment return false, and a take started afterwards on the
\* still empty sequence returns false without suspending.
C11_UnblockReturnsFalse ==
    /\ [][\A t \in Takers : (Released(t) /\ Returns(t)) => TakeReturns(t, 0)]_vars
    /\ [][LateTakeReturnsFalse]_vars

\* C11 amended: unblock on an empty sequence wakes every take that is inside
\* its wait at that moment, and each returns without suspending again: false
\* if the sequence is still empty when the take holds the mutex again, true
\* with the head element if one was added in between.  A take started
\* afterwards on the still empty sequence returns false without suspending.
C11_UnblockReleases ==
    /\ [](unblocked => empty_cv = {})
    /\ [][NoSuspendAfterUnblock]_vars
    /\ [][\A t \in Takers :
             (Released(t) /\ Returns(t))
                 => IF delegate = <<>>
                    THEN TakeReturns(t, 0)
                    ELSE TakeReturns(t, 1) /\ last'.out = Front(delegate)]_vars
    /\ unblocked ~> (\A t \in Takers : bpc[t] \notin WaitPcs)
    /\ [][LateTakeReturnsFalse]_vars

\* C11 witness: unblock ran on the empty sequence while two takes were
\* suspended; one of them has returned false and the other is woken and has
\* not yet returned.
C11_Witness ==
    /\ unblocked
    /\ delegate = <<>>
    /\ appended = <<>>
    /\ last.op = "take" /\ last.ret = 0 /\ ~last.timed
    /\ \E t \in Takers : bpc[t] = "t_woken" /\ ~timed[t]

\* C12 as stated: after unblock has returned, every take that was suspended at
\* that moment returns in the end, and no take started later ever suspends,
\* whatever the sequence held when unblock ran.
C12_UnblockEndsWaiting ==
    /\ unblocked ~> (\A t \in Takers : bpc[t] \notin WaitPcs)
    /\ [][NoSuspendAfterUnblock]_vars

\* C12 witness: unblock has returned, the sequence holds an element, every
\* other thread is outside its calls, and a take without timeout is still
\* suspended: unblock found the sequence non-empty and notified nobody.
C12_Witness ==
    /\ unblocked
    /\ delegate # <<>>
    /\ mutex = 0
    /\ \E t \in Takers :
          /\ bpc[t] = "t_wait" /\ ~timed[t]
          /\ \A u \in DOMAIN bpc \ {t} : bpc[u] = "idle"

\* the part of C12 that the code keeps: a take started after unblock never
\* suspends
C12_NoLateSuspend == [][NoSuspendAfterUnblock]_vars

C14_TakeTimeout ==
    /\ [](bpc[SoleConsumer] = "t_wait" => delegate = <<>>)
    /\ [][Returns(SoleConsumer)
             => IF delegate = <<>>
                THEN TakeReturns(SoleConsumer, 0) /\ removed = appended
                ELSE /\ TakeReturns(SoleConsumer, 1)
                     /\ last'.out = appended[Len(removed) + 1]]_vars
    /\ (bpc[SoleConsumer] \in TakePcs) ~> (bpc[SoleConsumer] = "idle")

\* C14 witness: the consumer was suspended in a take with timeout, an emplace
\* has woken it before the timer ran out, and it holds the mutex again with the
\* element in the sequence; an earlier take has already returned an element.
C14_Witness ==
    /\ bpc[SoleConsumer] = "t_recheck"
    /\ timed[SoleConsumer]
    /\ delegate # <<>>
    /\ last.op = "emplace" /\ last.ret = 1
    /\ removed # <<>>

\* ----------------------------------------------------- claims: emplace_range
\* the number of elements emplace_range may append to a sequence of length len
\* from an input of m elements: min(m, K - L), all m when unbounded
Admitted(len, m) ==
    IF max_size = 0 THEN m
    ELSE IF m <= max_size - len THEN m ELSE max_size - len

\* emplace_range appends the first Admitted elements of the input at the tail
\* in input order and nothing else
AppendsAdmitted(range) ==
    delegate' = delegate \o SubSeq(range, 1, Admitted(Len(delegate), Len(range)))

\* emplace_range returns the number of elements it appended
ReturnsAppended == last'.ret = Len(delegate') - Len(delegate)

\* C15 as stated: both overloads of emplace_range, called on a sequence of
\* length L with bound K and an input of m elements, append the first
\* min(m, K - L) input elements (all m when unbounded) at the tail in input
\* order, append nothing else, and return the number of elements appended.
C15_EmplaceRangeResult ==
    [][\A t \in Threads, range \in Ranges :
          (EmplaceRangeRv(t, range) \/ EmplaceRangeLv(t, range))
              => AppendsAdmitted(range) /\ ReturnsAppended]_vars

\* C15 witness: emplace_range(Range&&) has appended at least one element (the
\* call started with fewer than MaxAppend elements ever appended) and has
\* returned 0.
C15_Witness ==
    /\ last.op = "emplace_range_rv"
    /\ last.ret = 0
    /\ Len(appended) = MaxAppend

\* the part of C15 that the code keeps: both overloads append the admitted
\* prefix of the input, and emplace_range(Range&) returns its length
C15_LvalueResult ==
    [][\A t \in Threads, range \in Ranges :
          /\ EmplaceRangeRv(t, range) => AppendsAdmitted(range)
          /\ EmplaceRangeLv(t, range) => AppendsAdmitted(range) /\ ReturnsAppended]_vars

\* ------------------------------------------- claims: wake on the first element
\* a step adds an element to the empty sequence
BecomesNonEmpty == delegate = <<>> /\ delegate' # <<>>

\* the not-empty condition is signalled: of the takes suspended on it, at least
\* one is woken
Signalled == empty_cv # {} => (empty_cv' \subseteq empty_cv /\ empty_cv' # empty_cv)

\* C16 as stated: whenever emplace or either emplace_range overload adds an
\* element to the empty sequence the not-empty condition is signalled, so that
\* a suspended take is woken by it and need not wait for a timeout, a spurious
\* wakeup or a later operation.
C16_WakeOnFirstElement == [][BecomesNonEmpty => Signalled]_vars

\* C16 witness: a take without timeout is suspended, nothing was ever removed,
\* and emplace_range has put elements into the sequence and returned; the take
\* has not been woken.
C16_Witness ==
    /\ last.op = "emplace_range_lv"
    /\ delegate # <<>>
    /\ removed = <<>>
    /\ mutex = 0
    /\ \E t \in Threads : bpc[t] = "t_wait" /\ ~timed[t]

\* the part of C16 that the code keeps: emplace signals the condition when it
\* adds to the empty sequence
C16_EmplaceWakes ==
    [][\A t \in Threads, v \in Values :
          (Emplace(t, v) /\ BecomesNonEmpty) => Signalled]_vars

\* ------------------------------------------------------ claims: size snapshots
\* C17: every value size_guess returns, whichever of the two threads calls it
\* and however the other thread's calls interleave with it, is at least 0 and at
\* most the requested capacity N (which max_size() returns); every value
\* blocking_queue::size returns is at least 0 and, when the bound K is positive,
\* at most K.
C17_SizeBounds ==
    /\ guessed.by # "none"
          => guessed.ret >= 0 /\ guessed.ret <= requested /\ requested = RingMaxSize
    /\ last.op = "size"
          => last.ret >= 0 /\ (max_size > 0 => last.ret <= max_size)

\* C17 witness: the indices have wrapped (the write index is below the read
\* index), the buffer is full, and size_guess, called by the consumer while the
\* producer is inside emplace, has returned N.
C17_Witness ==
    /\ guessed.by = "c"
    /\ guessed.ret = requested
    /\ writeIndex_ < readIndex_
    /\ ppc = "e_check"

\* the blocking queue's half of C17 happens too: size has returned the bound
C17_SizeAtBound == last.op = "size" /\ max_size > 0 /\ last.ret = max_size

\* C18: a size_guess called by the consumer thread, with the producer running
\* concurrently, returns at most the number of live elements at the moment it
\* returns; called by the producer thread, with the consumer running
\* concurrently, it returns at least that number.  The number of live elements
\* is taken both as the slots that hold a constructed element and as the
\* distance between the two indices.
C18_SizeGuessDirection ==
    [][/\ SizeGuessReturn("c")
             => guessed'.ret <= LiveCount /\ guessed'.ret <= HeldCount
       /\ SizeGuessReturn("p")
             => guessed'.ret >= LiveCount /\ guessed'.ret >= HeldCount]_vars

\* C18 witness: size_guess called by the producer has returned more than the
\* number of live elements: the consumer, inside poll, has destroyed an element
\* after the producer loaded the read index.
C18_Witness ==
    /\ guessed.by = "p"
    /\ ppc = "idle"
    /\ cpc = "p_store"
    /\ guessed.ret = LiveCount + 1
    /\ guessed.ret = HeldCount

\* C19: poll never reports a spurious empty.  A poll that was called when more
\* emplace calls than poll calls had returned true does not return false; and
\* at the moment a poll returns false, every element whose emplace has
\* returned true has been given back by a poll, in the order of insertion.
C19_NoSpuriousEmpty ==
    [][PollCheck /\ cpc' = "idle" => ~owed /\ polled = emplaced]_vars

\* C19 witness: a poll called when an element was owed has passed its check
\* and read the element, after an earlier poll, while the producer is inside a
\* later emplace.
C19_Witness ==
    /\ owed
    /\ cpc = "p_store"
    /\ record = emplaced[Len(polled) + 1]
    /\ ppc = "e_store"
    /\ Len(polled) >= 1

\* a poll called on the empty buffer returns true when an emplace completes
\* before the poll loads writeIndex_
C19_LateElement == ~owed /\ cpc = "p_store" /\ Len(emplaced) = Len(polled) + 1

\* C20: emplace on a full buffer.  The step of emplace that loads readIndex_
\* returns false when (writeIndex_ + 1) mod size_ equals the value loaded, and
\* goes on to construct the element otherwise; the steps of an emplace that
\* returns false leave writeIndex_, readIndex_, every slot and the number of
\* constructed elements as they were; and a call of emplace returns false in
\* that step and case only.
C20_EmplaceFull ==
    [][/\ EmplaceCheck =>
             IF (writeIndex_ + 1) % size_ = readIndex_
             THEN /\ ppc' = "idle"
                  /\ hist' = Append(hist, <<"emplace", parg, 0>>)
                  /\ UNCHANGED <<writeIndex_, readIndex_, records_, numInstances>>
             ELSE ppc' = "e_new" /\ hist' = hist
       /\ (ppc = "idle" /\ ppc' = "e_check") =>
             UNCHANGED <<writeIndex_, readIndex_, records_, numInstances>>
       /\ (/\ Len(hist') = Len(hist) + 1
           /\ hist'[Len(hist')][1] = "emplace"
           /\ hist'[Len(hist')][3] = 0) =>
             /\ ppc = "e_check"
             /\ (writeIndex_ + 1) % size_ = readIndex_]_vars

\* C20 witness: emplace has returned false on a buffer whose slots but one hold
\* an element, the write index being behind the read index, and nothing was
\* constructed for the call.
C20_Witness ==
    /\ hist # <<>>
    /\ hist[Len(hist)][1] = "emplace" /\ hist[Len(hist)][3] = 0
    /\ ppc = "idle"
    /\ writeIndex_ < readIndex_
    /\ (writeIndex_ + 1) % size_ = readIndex_
    /\ LiveCount = size_ - 1
    /\ numInstances = size_ - 1

\* the slots other than slot i are left as they are
OtherSlotsKept(i) == \A j \in DOMAIN records_ \ {i} : records_'[j] = records_[j]

\* C21: poll on an empty and on a non-empty buffer.  The step of poll that
\* loads writeIndex_ returns false when readIndex_ equals the value loaded and
\* goes on otherwise; a poll that returns false leaves the caller's variable,
\* both indices, every slot and the number of constructed elements as they
\* were; a poll that goes on assigns the value of slot readIndex_ to the
\* caller's variable, destroys that slot and no other, advances readIndex_ by
\* one modulo size_, and returns true with the value that was inserted.
C21_PollEmptyOrFront ==
    [][/\ (cpc = "idle" /\ cpc' = "p_check") =>
             UNCHANGED <<record, readIndex_, writeIndex_, records_, numInstances>>
       /\ PollCheck =>
             IF readIndex_ = writeIndex_
             THEN /\ cpc' = "idle"
                  /\ hist' = Append(hist, <<"poll", NoVal, 0>>)
                  /\ UNCHANGED <<record, readIndex_, writeIndex_, records_, numInstances>>
             ELSE /\ cpc' = "p_move" /\ hist' = hist
                  /\ UNCHANGED <<record, readIndex_, writeIndex_, records_, numInstances>>
       /\ PollMove =>
             /\ records_[readIndex_].st = "live"
             /\ record' = records_[readIndex_].val
             /\ record' = emplaced[Len(polled) + 1]
             /\ OtherSlotsKept(readIndex_)
             /\ UNCHANGED <<readIndex_, writeIndex_, numInstances>>
       /\ PollDestroy =>
             /\ records_[readIndex_].st = "live"
             /\ records_'[readIndex_].st = "dead"
             /\ numInstances' = numInstances - 1
             /\ OtherSlotsKept(readIndex_)
             /\ UNCHANGED <<record, readIndex_, writeIndex_>>
       /\ PollStore =>
             /\ readIndex_' = (readIndex_ + 1) % size_
             /\ hist' = Append(hist, <<"poll", record, 1>>)
             /\ UNCHANGED <<record, writeIndex_, records_, numInstances>>
       /\ (/\ Len(hist') = Len(hist) + 1
           /\ hist'[Len(hist')][1] = "poll"
           /\ hist'[Len(hist')][3] = 1) =>
             PollStore]_vars

\* C21 witness: a poll has returned true with the value of the slot it
\* destroyed and the read index has wrapped to 0, after an earlier poll had
\* returned false.
C21_Witness ==
    /\ Len(hist) >= 2
    /\ hist[Len(hist)] = <<"poll", record, 1>>
    /\ hist[1] = <<"poll", NoVal, 0>>
    /\ record \in Values
    /\ readIndex_ = 0
    /\ cpc = "idle"
    /\ records_[size_ - 1].st = "dead"

\* a poll has just returned false on a buffer that held elements before
C21_EmptyAgain ==
    /\ hist # <<>>
    /\ hist[Len(hist)] = <<"poll", NoVal, 0>>
    /\ polled # <<>>
    /\ readIndex_ = writeIndex_

\* ---------------------------------------------------------- blocking queue
\* no thread other than t is woken or otherwise moved, and no thread leaves
\* the condition variable
NoWake(t) == empty_cv' = empty_cv /\ \A u \in DOMAIN bpc \ {t} : bpc'[u] = bpc[u]

\* C22: emplace at capacity.  On a queue with bound max_size > 0 that holds
\* max_size elements, emplace returns false, leaves the sequence and the
\* blocking flag as they were and wakes nobody; in every other case, and
\* always on the unbounded queue, it appends the element and returns true.
\* emplace never waits for space: a thread that holds the mutex in emplace is
\* not suspended on the condition variable, its next step is always possible
\* and that step returns.
C22_EmplaceAtCapacity ==
    /\ [](\A t \in DOMAIN bpc : bpc[t] = "emplace" =>
              /\ mutex = t
              /\ t \notin empty_cv
              /\ ENABLED (\E v \in Values : Emplace(t, v)))
    /\ [][\A t \in DOMAIN bpc : \A v \in Values : Emplace(t, v) =>
              /\ bpc'[t] = "idle" /\ mutex' = 0
              /\ last'.op = "emplace"
              /\ IF max_size > 0 /\ Len(delegate) = max_size
                 THEN /\ last'.ret = 0
                      /\ UNCHANGED <<delegate, blocking, appended>>
                      /\ NoWake(t)
                 ELSE /\ last'.ret = 1
                      /\ delegate' = Append(delegate, v)
                      /\ blocking' = blocking]_vars

\* C22 witness: emplace has returned false on a bounded queue holding max_size
\* elements while another thread is suspended in take.
C22_Witness ==
    /\ last.op = "emplace" /\ last.ret = 0
    /\ max_size > 0 /\ Len(delegate) = max_size
    /\ \E u \in DOMAIN bpc : bpc[u] = "t_wait" /\ u \in empty_cv
    /\ mutex = 0

\* C23: poll never waits.  A thread that holds the mutex in poll is not
\* suspended on the condition variable, its next step is always possible, and
\* that step returns without suspending, whether the queue is blocking or
\* not.  On a non-empty sequence the step removes the head, assigns it to the
\* caller's variable and returns true; on an empty sequence it returns false
\* and leaves the caller's variable, the sequence and the flag as they were.
C23_PollNeverWaits ==
    /\ [](\A t \in DOMAIN bpc : bpc[t] = "poll" =>
              /\ mutex = t
              /\ t \notin empty_cv
              /\ ENABLED Poll(t))
    /\ [][\A t \in DOMAIN bpc : Poll(t) =>
              /\ bpc'[t] = "idle" /\ mutex' = 0
              /\ t \notin empty_cv'
              /\ last'.op = "poll"
              /\ blocking' = blocking
              /\ IF delegate # <<>>
                 THEN /\ last'.ret = 1
                      /\ last'.out = Head(delegate)
                      /\ delegate' = Tail(delegate)
                 ELSE /\ last'.ret = 0
                      /\ last'.out = NoVal
                      /\ delegate' = delegate]_vars

\* C23 witness: poll has returned false at once on the empty queue in blocking
\* mode, while another thread stays suspended in take.
C23_Witness ==
    /\ last.op = "poll" /\ last.ret = 0 /\ last.out = NoVal
    /\ blocking
    /\ delegate = <<>>
    /\ \A t \in DOMAIN bpc : bpc[t] # "poll"
    /\ \E u \in DOMAIN bpc : bpc[u] = "t_wait"

\* poll has returned the head of a sequence of two elements after unblock
C23_PollAfterUnblock ==
    /\ last.op = "poll" /\ last.ret = 1
    /\ ~blocking
    /\ Len(delegate) = 1
    /\ appended = <<last.out>> \o delegate

\* a step of thread t's own inside take, the call included
TakeOwnStep(t) ==
    \/ \E tmo \in BOOLEAN : TakeAcquire(t, tmo)
    \/ TakerStep(t)
    \/ TakeTimeout(t)
    \/ SpuriousWakeup(t)

\* C24: a take that returns false has no effect.  No step of take changes the
\* blocking flag, and only the step that returns true changes the sequence; a
\* take suspends only when it finds the sequence empty; the step in which take
\* returns false is made holding the mutex, finds the sequence empty, leaves it
\* empty, removes nothing and assigns nothing to the caller's variable.
C24_TakeFalseNoEffect ==
    [][\A t \in DOMAIN bpc :
          /\ TakeOwnStep(t) =>
                /\ blocking' = blocking
                /\ delegate' = delegate \/ TakeReturns(t, 1)
          /\ (TakerStep(t) /\ bpc'[t] = "t_wait") =>
                delegate = <<>> /\ blocking
          /\ TakeReturns(t, 0) =>
                /\ mutex = t
                /\ delegate = <<>> /\ delegate' = <<>>
                /\ removed' = removed
                /\ last'.out = NoVal
                /\ blocking' = blocking]_vars

\* C24 witness: a take with a timeout has returned false on the queue in
\* blocking mode, after elements had passed through the queue.
C24_Witness ==
    /\ last.op = "take" /\ last.ret = 0 /\ last.out = NoVal
    /\ last.timed
    /\ blocking
    /\ delegate = <<>>
    /\ removed # <<>>
    /\ removed = appended

\* a take without a timeout has returned false because the queue was unblocked
\* while empty
C24_FalseByUnblock ==
    /\ last.op = "take" /\ last.ret = 0
    /\ ~last.timed
    /\ ~blocking
    /\ delegate = <<>>

\* thread t makes the step of poll or take that looks at the sequence with the
\* mutex held
RemovalCheck(t) ==
    \/ Poll(t)
    \/ Take(t)
    \/ TakeRecheck(t)
    \/ TakeExpired(t)

\* C25: unblock preserves the buffered elements.  unblock clears the blocking
\* flag and leaves the sequence, its order and its bound as they were.  After
\* unblock has returned, emplace appends at the tail unless the bounded queue
\* is full; poll and take, finding the sequence non-empty, remove its head,
\* hand it over and return true; and the elements added are, in order, the
\* elements removed followed by the sequence.
C25_UnblockKeepsElements ==
    /\ [](unblocked => ~blocking /\ appended = removed \o delegate)
    /\ [][\A t \in DOMAIN bpc :
              /\ Unblock(t) =>
                    /\ blocking' = FALSE
                    /\ UNCHANGED <<delegate, max_size, appended, removed>>
              /\ unblocked =>
                    /\ \A v \in Values : Emplace(t, v) =>
                          IF max_size = 0 \/ Len(delegate) < max_size
                          THEN delegate' = Append(delegate, v) /\ last'.ret = 1
                          ELSE delegate' = delegate /\ last'.ret = 0
                    /\ (RemovalCheck(t) /\ delegate # <<>>) =>
                          /\ Returns(t)
                          /\ last'.ret = 1
                          /\ last'.out = Head(delegate)
                          /\ delegate' = Tail(delegate)
                          /\ removed' = Append(removed, Head(delegate))]_vars

\* C25 witness: after unblock, take has returned the head of a sequence of two
\* buffered elements and the second one is still there.
C25_Witness ==
    /\ unblocked /\ ~blocking
    /\ last.op = "take" /\ last.ret = 1
    /\ Len(delegate) = 1
    /\ appended = <<last.out>> \o delegate
    /\ last.out # delegate[1]

\* unblock has just returned on a sequence holding two elements
C25_UnblockOnTwo == last.op = "unblock" /\ Len(delegate) = 2 /\ ~blocking

\* emplace has appended an element after unblock
C25_EmplaceAfterUnblock ==
    /\ unblocked
    /\ last.op = "emplace" /\ last.ret = 1
    /\ removed # <<>>
    /\ delegate # <<>>

\* C26: consume drains atomically.  From the moment consume holds the mutex
\* until it returns, the values passed to the visitor so far followed by the
\* sequence stay the same: each iteration passes the head to the visitor once
\* and removes it, and no step of another thread changes the sequence or the
\* flag or puts another thread inside a guarded body.  consume returns when the
\* sequence is empty, with the number of visitor calls as its result, so on a
\* sequence holding e1..ek the visitor has seen e1..ek in order and the result
\* is k (0 without a visitor call on the empty sequence).
C26_ConsumeDrains ==
    /\ []((\A t \in Threads : bpc[t] # "consume") => consumed = NoneConsumed)
    /\ [](\A t \in Threads : bpc[t] = "consume" =>
              /\ mutex = t
              /\ consumed.count = Len(consumed.visited)
              /\ \A u \in Threads \ {t} : bpc[u] \notin LockedPcs)
    /\ [][\A t \in Threads :
              /\ (bpc[t] = "consume" /\ bpc'[t] = "consume") =>
                    /\ consumed'.visited \o delegate' = consumed.visited \o delegate
                    /\ UNCHANGED <<blocking, appended, mutex>>
                    /\ \/ /\ ConsumePop(t)
                          /\ consumed'.visited = Append(consumed.visited, Head(delegate))
                          /\ delegate' = Tail(delegate)
                       \/ UNCHANGED <<delegate, removed, consumed, last>>
              /\ (bpc[t] = "consume" /\ bpc'[t] # "consume") =>
                    /\ delegate = <<>> /\ delegate' = <<>>
                    /\ last'.op = "consume"
                    /\ last'.ret = Len(consumed.visited)
                    /\ UNCHANGED <<blocking, appended, removed>>]_vars

\* C26 witness: consume has returned 2 after visiting two elements in the order
\* they were added, while a woken take is still waiting for the mutex.
C26_Witness ==
    /\ last.op = "consume" /\ last.ret = 2
    /\ delegate = <<>>
    /\ Len(appended) = 2 /\ removed = appended
    /\ \E u \in Threads : bpc[u] = "t_woken"

\* consume is between two iterations while a woken take waits for the mutex
C26_MidLoop ==
    \E t \in Threads :
        /\ bpc[t] = "consume"
        /\ consumed.count = 1
        /\ delegate # <<>>
        /\ \E u \in Threads : bpc[u] = "t_woken"

\* consume has returned 0 on the empty sequence
C26_Empty == last.op = "consume" /\ last.ret = 0 /\ removed = <<>> /\ appended = <<>>

\* ------------------------------------------------ ring buffer: every operation
\* the largest number of steps thread who still has to take inside the call it
\* is in: an emplace or poll before its check goes through at most four steps,
\* a size_guess through its two loads and its return, and is_empty, is_full
\* and front_ptr through one more step
StepsLeft(who) ==
    LET pc == PcOf(who) IN
    IF pc \in {"e_check", "p_check"} THEN 4
    ELSE IF pc \in {"e_new", "p_move"} THEN 3
    ELSE IF pc \in {"e_ctor", "p_dtor"} THEN 2
    ELSE IF pc \in {"e_store", "p_store", "f_check", "ie_second", "if_check"} THEN 1
    ELSE IF pc = "g_load"
         THEN 1 + (IF gload[who].w = Null THEN 1 ELSE 0) + (IF gload[who].r = Null THEN 1 ELSE 0)
    ELSE 0

\* a step of thread who inside the call it is in
InsideStep(who) ==
    /\ PcOf(who) # "idle"
    /\ IF who = "p" THEN BusyProducer \/ Observer("p")
       ELSE BusyConsumer \/ FrontPtr \/ Observer("c")

\* C27: the ring buffer operations are non-blocking.  A thread inside a call of
\* emplace, poll, front_ptr, is_empty, is_full or size_guess can always take
\* its next step, whatever the other thread is doing and wherever it has
\* stopped; each of its steps brings it at least one step nearer to the
\* return, no step of the other thread sets it back, and no call takes more
\* than five steps (max_size takes one); so every call returns after a bounded
\* number of its own steps.
C27_NonBlocking ==
    /\ [](\A who \in {"p", "c"} :
              /\ PcOf(who) # "idle" => ENABLED InsideStep(who)
              /\ (PcOf(who) = "idle") = (StepsLeft(who) = 0)
              /\ StepsLeft(who) <= 4)
    /\ [][\A who \in {"p", "c"} :
              /\ InsideStep(who) => StepsLeft(who)' < StepsLeft(who)
              /\ (\E other \in {"p", "c"} \ {who} : InsideStep(other)) =>
                    StepsLeft(who)' = StepsLeft(who)
              /\ MaxSizeCall(who) =>
                    PcOf(who)' = "idle" /\ answered'.op = "max_size"]_vars

\* C27 witness: the consumer has returned from poll, and from is_empty after
\* it, while the producer stayed stopped inside emplace, before its store.
C27_Witness ==
    /\ ppc = "e_store"
    /\ cpc = "idle"
    /\ hist = << <<"poll", NoVal, 0>> >>
    /\ answered = [by |-> "c", op |-> "is_empty", ret |-> 1]
    /\ records_[0].st = "live"

\* the producer is inside is_full, having loaded writeIndex_, while the
\* consumer is stopped between the two loads of is_empty
C27_Observers ==
    /\ ppc = "if_check"
    /\ cpc = "ie_second"
    /\ gload["c"].w # Null
    /\ writeIndex_ # gload["c"].w

\* ----------------------------------------- blocking queue: mutual exclusion
\* the threads executing the mutex-guarded body of an operation
InBody == {t \in DOMAIN bpc : bpc[t] \in LockedPcs}

\* C28: mutual exclusion.  At most one thread is inside the mutex-guarded body
\* of an operation, and it is the thread that holds the mutex.  A take inside
\* its wait (suspended, or woken or timed out and not yet running again) does
\* not hold the mutex, so that while takes wait and no thread is inside a body
\* another thread can start emplace, poll and unblock.  The next step of a
\* woken or timed-out take is to reacquire the mutex; it makes its re-check of
\* the sequence holding the mutex; and every operation returns holding the
\* mutex and releases it with the return.
C28_MutualExclusion ==
    /\ [](/\ Cardinality(InBody) <= 1
          /\ \A t \in Threads : (t \in InBody) = (mutex = t)
          /\ \A t \in Threads : t \in empty_cv => bpc[t] = "t_wait"
          /\ \A t \in InsideWait : mutex # t
          /\ \A u \in Threads :
                (InsideWait # {} /\ InBody = {} /\ bpc[u] = "idle") =>
                    /\ mutex = 0
                    /\ ENABLED Acquire(u, "poll")
                    /\ ENABLED Acquire(u, "unblock")
                    /\ Len(appended) < MaxAppend => ENABLED Acquire(u, "emplace"))
    /\ [][\A t \in Threads :
              /\ (bpc[t] \in {"t_woken", "t_timeout"} /\ bpc'[t] # bpc[t]) =>
                    /\ mutex = 0 /\ mutex' = t
                    /\ bpc'[t] \in {"t_recheck", "t_expired"}
                    /\ UNCHANGED <<delegate, blocking, last>>
              /\ (bpc[t] \in {"t_recheck", "t_expired"} /\ bpc'[t] # bpc[t]) =>
                    /\ mutex = t /\ mutex' = 0
                    /\ TakeReturns(t, 1) = (delegate # <<>>)
                    /\ TakeReturns(t, 1) \/ TakeReturns(t, 0) \/ bpc'[t] = "t_wait"
              /\ Returns(t) => mutex = t /\ mutex' = 0]_vars

\* C28 witness: a thread is inside the body of emplace, holding the mutex,
\* while another thread is suspended in take.
C28_Witness ==
    \E t, u \in Threads :
        /\ bpc[t] = "t_wait" /\ t \in empty_cv
        /\ bpc[u] = "emplace" /\ mutex = u
        /\ InBody = {u}

\* a woken take waits for the mutex while another thread is inside consume,
\* between two iterations of its loop
C28_WokenWaits ==
    \E t, u \in Threads :
        /\ bpc[t] = "t_woken"
        /\ bpc[u] = "consume" /\ mutex = u
        /\ consumed.count = 1 /\ delegate # <<>>

\* -------------------------------------------------- ring buffer: front_ptr
\* the element the next successful poll returns
NextPolled == emplaced[Len(polled) + 1]

\* C29: front_ptr does not consume.  The step of front_ptr that loads
\* writeIndex_ returns null exactly when readIndex_ equals the value loaded,
\* and otherwise the address of slot readIndex_, which holds the element the
\* next poll returns; no step of front_ptr, and no read through the pointer,
\* changes an index, a slot or the caller's variable of poll; a pointer the
\* consumer holds keeps pointing at that element; and the poll that follows
\* returns the element poll alone would: the oldest one not yet polled.
C29_FrontPtrKeeps ==
    /\ [](frontp # Null =>
              /\ frontp = readIndex_
              /\ records_[frontp].st = "live"
              /\ records_[frontp].val = NextPolled)
    /\ [][/\ (FrontPtrCall \/ FrontPtrCheck \/ FrontPtrRead) =>
                UNCHANGED <<readIndex_, writeIndex_, records_, numInstances, record, hist>>
          /\ FrontPtrCheck =>
                /\ (frontp' = Null) = (readIndex_ = writeIndex_)
                /\ (frontp' = Null \/ frontp' = readIndex_)
          /\ FrontPtrRead => peek' = NextPolled
          /\ PollStore => record = NextPolled]_vars

\* C29 witness: the consumer has read the second element through a pointer
\* front_ptr returned, and the poll that followed has returned that element.
C29_Witness ==
    /\ Len(polled) = 2
    /\ hist[Len(hist)] = <<"poll", peek, 1>>
    /\ polled[2] = peek
    /\ polled[1] # peek
    /\ cpc = "idle"

\* ------------------------------------- ring buffer: is_empty, is_full, size
\* no emplace, poll or other call is in progress
Quiescent == ppc = "idle" /\ cpc = "idle"

\* the number of elements the buffer holds: inserted and not yet polled
Held == Len(emplaced) - Len(polled)

\* C30: the empty and full predicates.  In every quiescent state of a ring
\* buffer constructed with capacity requested >= 1, is_empty evaluates to true
\* exactly when the buffer holds no element, is_full exactly when it holds
\* requested elements, size_guess to the number of elements held, and is_empty
\* and is_full are not both true; and with the calls made one after the other,
\* every call of is_empty, is_full and size_guess returns accordingly.
C30_EmptyFull ==
    /\ [](Quiescent =>
              /\ requested >= 1
              /\ Held = LiveCount
              /\ IsEmptyValue(readIndex_, writeIndex_) = (Held = 0)
              /\ IsFullValue(writeIndex_, readIndex_) = (Held = requested)
              /\ SizeGuessValue(writeIndex_, readIndex_) = Held
              /\ ~(IsEmptyValue(readIndex_, writeIndex_) /\ IsFullValue(writeIndex_, readIndex_)))
    /\ [][\A who \in {"p", "c"} :
              /\ IsEmptyReturn(who) =>
                    answered'.op = "is_empty" /\ (answered'.ret = 1) = (Held = 0)
              /\ IsFullCheck(who) =>
                    answered'.op = "is_full" /\ (answered'.ret = 1) = (Held = requested)
              /\ SizeGuessReturn(who) => guessed'.ret = Held]_vars

\* C30 witness: is_full has returned true in a quiescent state in which the
\* write index is at the last slot and the read index has wrapped to 0.
C30_Witness ==
    /\ Quiescent
    /\ answered.op = "is_full" /\ answered.ret = 1
    /\ writeIndex_ = size_ - 1
    /\ readIndex_ = 0
    /\ polled # <<>>
    /\ Held = requested

\* is_empty has returned true after elements passed through the buffer
C30_EmptyAgain ==
    /\ Quiescent
    /\ answered.op = "is_empty" /\ answered.ret = 1
    /\ polled # <<>>
    /\ readIndex_ = writeIndex_ /\ readIndex_ > 0

\* ------------------------------------- blocking queue: front_ptr (claim C31)
\* front_ptr of the blocking queue, called by test_threshold: under the guard,
\* null when the sequence is empty and otherwise the address of
\* delegate.front(); nothing is removed.  ret tells a non-null pointer (1)
\* from null (0) and out is the element pointed to.
BQFrontPtr(t) ==
    /\ bpc[t] = "front_ptr"
    /\ last' = IF delegate = <<>>
               THEN Returned("front_ptr", 0, NoVal, FALSE)
               ELSE Returned("front_ptr", 1, Front(delegate), FALSE)
    /\ bpc' = [bpc EXCEPT ![t] = "idle"]
    /\ mutex' = 0
    /\ UNCHANGED <<empty_cv, delegate, max_size, blocking, timed, appended, removed>>
    /\ UNCHANGED <<unblocked, consumed>>
    /\ UNCHANGED ringvars

\* test_threshold: elements are emplaced and taken, and front_ptr is called;
\* here every thread may do each of them and poll, in any order, and the
\* elements are numbered in the order of their appending
FrontNext ==
    \E t \in Threads :
        \/ \E op \in {"emplace", "poll", "front_ptr"} : Acquire(t, op)
        \/ TakeAcquire(t, FALSE)
        \/ Emplace(t, Numbered(Len(appended) + 1))
        \/ Poll(t)
        \/ Take(t)
        \/ SpuriousWakeup(t)
        \/ TakeReacquire(t)
        \/ TakeRecheck(t)
        \/ BQFrontPtr(t)

SpecBQFront == InitBQ /\ [][FrontNext]_vars

\* C31: front_ptr of the blocking queue runs under the mutex, removes nothing,
\* returns null when the sequence is empty, that is when every element emplaced
\* so far has been taken or polled, and otherwise returns a pointer to the head
\* element, the oldest element emplaced and not yet removed.
C31_FrontPtr ==
    [][\A t \in Threads :
          (bpc[t] = "front_ptr" /\ bpc'[t] = "idle") =>
              /\ mutex = t
              /\ delegate' = delegate
              /\ removed' = removed
              /\ last'.op = "front_ptr"
              /\ IF Len(removed) = Len(appended)
                 THEN last'.ret = 0 /\ last'.out = NoVal
                 ELSE last'.ret = 1 /\ last'.out = appended[Len(removed) + 1]]_vars

\* C31 witness: front_ptr has returned null after every emplaced element was
\* removed again.
C31_Witness ==
    /\ last = Returned("front_ptr", 0, NoVal, FALSE)
    /\ Len(appended) = MaxAppend
    /\ removed = appended
    /\ delegate = <<>>
    /\ \A t \in Threads : bpc[t] = "idle"

\* front_ptr has returned the head of a sequence of two different elements,
\* and both are still there
C31_HeadKept ==
    /\ last.op = "front_ptr" /\ last.ret = 1
    /\ Len(delegate) = 2
    /\ delegate[1] # delegate[2]
    /\ last.out = delegate[1]
    /\ \A t \in Threads : bpc[t] = "idle"

\* ------------------- ring buffer: the edition with size - 1 usable slots (C32)
\* mutant of SlotCount: one slot more than requested is stored
SlotCountPlusOne(size) == size + 1

\* constructor of the earlier edition: size_(size), assert(size >= 2)
SlotCount(size) == size

\* the earlier edition as constructed: size slots, size >= 2
SlotRingInit ==
    /\ requested \in 2..(MaxSize + 1)
    /\ size_ = SlotCount(requested)
    /\ records_ = [i \in 0..(size_ - 1) |-> RawSlot]
    /\ readIndex_ = 0
    /\ writeIndex_ = 0
    /\ ppc = "idle" /\ currentWrite = 0 /\ nextWrite = 0 /\ parg = NoVal
    /\ cpc = "idle" /\ currentRead = 0 /\ nextRead = 0 /\ record = NoVal
    /\ frontp = Null /\ peek = NoVal
    /\ hist = <<>>
    /\ numInstances = 0
    /\ ub = FALSE
    /\ destroyed = FALSE
    /\ gload = [who \in {"p", "c"} |-> NotLoaded]
    /\ guessed = NoGuess
    /\ owed = FALSE
    /\ answered = NoAnswer
    /\ BQInit /\ max_size = 0

\* the observers of the earlier edition, which has no max_size
SlotObserver(who) ==
    \/ SizeGuess(who)
    \/ IsEmpty(who)
    \/ IsFull(who)

\* test_EmptyFull: the calls are made one after the other
SlotProducer == cpc = "idle" /\ (SizeProducer \/ SlotObserver("p"))

SlotConsumer == ppc = "idle" /\ (SizeConsumer \/ FrontPtr \/ SlotObserver("c"))

SlotRingNext == SlotProducer \/ SlotConsumer

SpecRingSlots == SlotRingInit /\ [][SlotRingNext]_vars

\* C32: the ring buffer whose constructor stores the given size S >= 2 as the
\* slot count has S - 1 usable slots.  With the calls made one after the
\* other, it never holds more than S - 1 elements, is_full is true exactly
\* when it holds S - 1, an emplace returns true exactly when it holds fewer
\* than S - 1 (so, starting empty, the S-th emplace returns false), and
\* size_guess returns the number held (S - 1 when full).
C32_UsableSlots ==
    /\ [](Quiescent =>
              /\ Held <= requested - 1
              /\ IsFullValue(writeIndex_, readIndex_) = (Held = requested - 1)
              /\ SizeGuessValue(writeIndex_, readIndex_) = Held)
    /\ [][/\ (Len(hist') = Len(hist) + 1 /\ hist'[Len(hist')][1] = "emplace") =>
                (hist'[Len(hist')][3] = 1) = (Held < requested - 1)
          /\ \A who \in {"p", "c"} :
                /\ IsFullCheck(who) =>
                      answered'.op = "is_full" /\ (answered'.ret = 1) = (Held = requested - 1)
                /\ SizeGuessReturn(who) => guessed'.ret = Held]_vars

\* C32 witness: a buffer constructed with size 3, starting empty: two emplace
\* calls returned true, is_full then returned true, the third emplace
\* returned false and size_guess then returned 2.
C32_Witness ==
    /\ requested = 3
    /\ Quiescent
    /\ Len(hist) = 3
    /\ \A k \in 1..3 : hist[k][1] = "emplace" /\ hist[k][3] = (IF k <= 2 THEN 1 ELSE 0)
    /\ answered.op = "is_full" /\ answered.ret = 1
    /\ guessed.ret = 2

\* ------------------------ blocking queue: unblock is never called (C33, C34)
\* the owner's steps inside the calls other than unblock
BlockingOwnerStep ==
    \/ Emplace(Owner, Numbered(Len(appended) + 1))
    \/ \E k \in 0..MaxRange : EmplaceRangeRv(Owner, NumberedRange(k))
    \/ \E k \in 0..MaxRange : EmplaceRangeLv(Owner, NumberedRange(k))
    \/ Poll(Owner)
    \/ Consume(Owner)
    \/ IsBlocking(Owner)
    \/ Size(Owner)

\* the owner produces and consumes, the takers call take with or without a
\* timeout, and nobody calls unblock
BlockingNext ==
    \/ \E op \in (GuardedOps \ {"unblock"}) \cup ObserverOps : OwnerCall(op)
    \/ BlockingOwnerStep
    \/ \E t \in Takers :
          \/ \E tmo \in BOOLEAN : TakerCall(t, tmo)
          \/ TakerStep(t)
          \/ TakeTimeout(t)
          \/ SpuriousWakeup(t)

SpecBQBlocking == InitUnblock /\ [][BlockingNext]_vars

\* C33: on a queue on which unblock is never called, a take called with a
\* negative timeout never returns false, whatever the other threads do: every
\* return of such a take is a return of true with an element of the sequence,
\* and the queue stays blocking.
C33_TakeNeverFails ==
    [][\A t \in Takers :
          (bpc[t] \in TakePcs /\ bpc'[t] = "idle" /\ ~timed[t]) =>
              /\ blocking /\ blocking'
              /\ delegate # <<>>
              /\ last' = Returned("take", 1, Front(delegate), FALSE)]_vars

\* C33 witness: a taker called with a negative timeout is awake again inside
\* its wait, holds the mutex and finds the sequence empty: the only element
\* emplaced went to another take, which returned true.
C33_Witness ==
    \E t \in Takers :
        /\ bpc[t] = "t_recheck" /\ ~timed[t]
        /\ delegate = <<>>
        /\ Len(appended) = 1 /\ removed = appended
        /\ last = Returned("take", 1, appended[1], FALSE)
        /\ \A u \in Takers \ {t} : bpc[u] = "idle"
        /\ bpc[Owner] = "idle"

\* C34: a thread becomes suspended only inside take, from the first check or
\* from the re-evaluation of the predicate after a wakeup, and only while it
\* holds the mutex, the sequence is empty and the blocking flag is true; it
\* releases the mutex as it suspends.  A take that finds the sequence
\* non-empty at entry pops the head and returns true without waiting.
C34_SuspendOnlyEmptyBlocking ==
    [][\A t \in Threads :
          /\ (bpc[t] # "t_wait" /\ bpc'[t] = "t_wait") =>
                /\ bpc[t] \in {"take", "t_recheck"}
                /\ mutex = t /\ mutex' = 0
                /\ delegate = <<>>
                /\ blocking
                /\ t \in empty_cv'
          /\ (bpc[t] = "take" /\ bpc'[t] # "take" /\ delegate # <<>>) =>
                /\ bpc'[t] = "idle"
                /\ delegate' = Tail(delegate)
                /\ last' = Returned("take", 1, Head(delegate), timed[t])]_vars

\* C34 witness: a thread is suspended inside take, the mutex free, the
\* sequence empty and the queue blocking, after every element appended was
\* removed, the last one by a take that returned true.
C34_Witness ==
    \E t \in Threads :
        /\ bpc[t] = "t_wait" /\ t \in empty_cv
        /\ mutex = 0
        /\ delegate = <<>> /\ blocking
        /\ removed # <<>> /\ removed = appended
        /\ last.op = "take" /\ last.ret = 1

\* a take has returned the head of the sequence while an element stays in it
\* and nobody is suspended
C34_TakeAtOnce ==
    /\ last.op = "take" /\ last.ret = 1
    /\ Len(appended) = MaxAppend /\ Len(removed) = 1
    /\ empty_cv = {}
    /\ \A t \in Threads : bpc[t] = "idle"

\* C35: the wake rule of unblock.  A call of unblock wakes every thread
\* suspended on the not-empty condition when the sequence is empty at the
\* call, and wakes nobody when the sequence is not empty: the suspended
\* threads then stay suspended.
C35_UnblockWakeRule ==
    [][\A t \in DOMAIN bpc :
          (bpc[t] = "unblock" /\ bpc'[t] = "idle") =>
              IF delegate = <<>>
              THEN /\ empty_cv' = {}
                   /\ \A u \in empty_cv : bpc'[u] = "t_woken"
              ELSE /\ empty_cv' = empty_cv
                   /\ \A u \in empty_cv : bpc'[u] = "t_wait"]_vars

\* C35 witness: unblock has returned on an empty sequence: no thread is left
\* suspended, and every taker is awake inside its wait.
C35_Witness ==
    /\ last.op = "unblock"
    /\ unblocked /\ ~blocking
    /\ delegate = <<>>
    /\ empty_cv = {}
    /\ \A u \in Takers : bpc[u] = "t_woken"

\* unblock was called on a sequence that is not empty, and a taker suspended
\* before the call is still suspended
C35_NoWake ==
    /\ last.op = "unblock"
    /\ unblocked /\ ~blocking
    /\ delegate # <<>>
    /\ empty_cv # {}
    /\ \E u \in Takers : bpc[u] = "t_wait" /\ u \in empty_cv

\* the indices of the allocated storage records_
Slots == 0..(size_ - 1)

\* C36: the cursors of the ring buffer stay in range.  In every reachable
\* state readIndex_ and writeIndex_ are in 0..size_ - 1, where size_ is the
\* requested size plus one and records_ has size_ slots; every index at which
\* emplace constructs, poll moves and destroys, front_ptr points and the
\* destructor destroys is in that range; and the cursors change only by a
\* successful emplace, which advances writeIndex_ by one modulo size_, and by
\* a successful poll, which advances readIndex_ by one modulo size_.
C36_CursorsInRange ==
    /\ [](/\ size_ = requested + 1
          /\ DOMAIN records_ = Slots
          /\ readIndex_ \in Slots
          /\ writeIndex_ \in Slots
          /\ ppc \in {"e_new", "e_ctor", "e_store"} =>
                currentWrite \in Slots /\ nextWrite \in Slots
          /\ cpc \in {"p_move", "p_dtor", "p_store"} =>
                currentRead \in Slots /\ nextRead \in Slots
          /\ frontp # Null => frontp \in Slots
          /\ \A k \in 1..Len(DtorSlots) : DtorSlots[k] \in Slots)
    /\ [][/\ writeIndex_' # writeIndex_ =>
                /\ ppc = "e_store" /\ ppc' = "idle"
                /\ hist' = Append(hist, <<"emplace", parg, 1>>)
          /\ readIndex_' # readIndex_ =>
                /\ cpc = "p_store" /\ cpc' = "idle"
                /\ hist' = Append(hist, <<"poll", record, 1>>)
          /\ EmplaceStore =>
                writeIndex_' = (writeIndex_ + 1) % size_ /\ readIndex_' = readIndex_
          /\ PollStore =>
                readIndex_' = (readIndex_ + 1) % size_ /\ writeIndex_' = writeIndex_
          /\ (EmplaceCheck /\ ppc' = "idle") => writeIndex_' = writeIndex_
          /\ (PollCheck /\ cpc' = "idle") => readIndex_' = readIndex_]_vars

\* C36 witness: both cursors have wrapped to slot 0: the write cursor by an
\* emplace into the last slot and the read cursor by a poll of the last slot.
C36_Witness ==
    /\ ppc = "idle" /\ cpc = "idle"
    /\ writeIndex_ = 0 /\ readIndex_ = 0
    /\ Len(emplaced) = size_ /\ Len(polled) = size_
    /\ records_[size_ - 1].st = "dead"
    /\ ~destroyed

\* ------------ ring buffer: every size the constructor's parameter can hold
\* the largest value of the parameter uint32_t size
MaxRequested == UintRange - 1

\* std::malloc(sizeof (T) * (size + 1)): the number of slots asked for, size + 1
\* computed in uint32_t before the multiplication
SlotsAllocated(size) == (size + 1) % UintRange

\* The ring buffer as constructed with any size from 1 up to the largest its
\* parameter can hold.  malloc asked for no slot returns either a block of no
\* slots or null; with null the constructor throws std::bad_alloc and there is
\* no object: this outcome is recorded as destroyed, with "bad_alloc" in hist.
CtorInit ==
    /\ requested \in 1..MaxRequested
    /\ size_ = StoredSize(requested)
    /\ records_ = [i \in 0..(SlotsAllocated(requested) - 1) |-> RawSlot]
    /\ readIndex_ = 0
    /\ writeIndex_ = 0
    /\ ppc = "idle" /\ currentWrite = 0 /\ nextWrite = 0 /\ parg = NoVal
    /\ cpc = "idle" /\ currentRead = 0 /\ nextRead = 0 /\ record = NoVal
    /\ frontp = Null /\ peek = NoVal
    /\ \/ destroyed = FALSE /\ hist = <<>>
       \/ /\ SlotsAllocated(requested) = 0
          /\ destroyed = TRUE
          /\ hist = << <<"bad_alloc", NoVal, 0>> >>
    /\ numInstances = 0
    /\ ub = FALSE
    /\ gload = [who \in {"p", "c"} |-> NotLoaded]
    /\ guessed = NoGuess
    /\ owed = FALSE
    /\ answered = NoAnswer
    /\ BQInit /\ max_size = 0

\* the two threads call max_size, is_empty, is_full and size_guess on the
\* buffer as constructed
CtorNext == \E who \in {"p", "c"} : Observer(who)

SpecRingCtor == CtorInit /\ [][CtorNext]_vars

\* C37: for every requested size N from 1 up to the largest value of the
\* constructor's unsigned parameter, the constructor succeeds, stores the
\* capacity N + 1 and allocates N + 1 slots, and max_size returns N.
C37_StoredCapacity ==
    /\ ~destroyed
    /\ size_ = requested + 1
    /\ DOMAIN records_ = 0..requested
    /\ answered.op = "max_size" => answered.ret = requested

\* C37 witness: constructed with the largest size of the parameter, the
\* buffer stores capacity 0 and has no slot, and max_size has returned the
\* requested size.
C37_Witness ==
    /\ requested = MaxRequested
    /\ ~destroyed
    /\ size_ = 0
    /\ DOMAIN records_ = {}
    /\ answered.op = "max_size" /\ answered.ret = requested

\* for every requested size below the largest one the statement of C37 holds
C37_BelowLargest == requested < MaxRequested => C37_StoredCapacity

\* -------------- ring buffer: size_guess at every pair of cursor values (C38)
\* The calls made one after the other that bring the cursors of a fresh
\* buffer to readIndex_ = r with `held` elements in it: r times an emplace
\* and a poll, then `held` emplace calls; the elements are numbered.
CursorHist(r, held) ==
    [k \in 1..(2 * r + held) |->
        IF k <= 2 * r
        THEN (IF k % 2 = 1 THEN <<"emplace", Numbered((k + 1) \div 2), 1>>
              ELSE <<"poll", Numbered(k \div 2), 1>>)
        ELSE <<"emplace", Numbered(k - r), 1>>]

\* the slots after these calls: the elements r + 1 .. r + held are in the
\* slots from r on, wrapping at size_; a slot polled and not written again
\* holds a destroyed element; the other slots were never written
CursorSlots(r, held) ==
    [i \in 0..(size_ - 1) |->
        IF \E j \in 1..held : (r + j - 1) % size_ = i
        THEN [st |-> "live",
              val |-> Numbered(r + (CHOOSE j \in 1..held : (r + j - 1) % size_ = i))]
        ELSE IF i < r THEN [st |-> "dead", val |-> NoVal]
        ELSE RawSlot]

\* a buffer of any capacity the size field can hold, between calls, its
\* cursors at any pair of values the calls above lead to
CursorInit ==
    /\ requested \in 1..(MaxRequested - 1)
    /\ size_ = StoredSize(requested)
    /\ \E r \in 0..(size_ - 1), held \in 0..requested :
          /\ readIndex_ = r
          /\ writeIndex_ = (r + held) % size_
          /\ records_ = CursorSlots(r, held)
          /\ hist = CursorHist(r, held)
          /\ numInstances = held
          /\ IF r + held = 0
             THEN currentWrite = 0 /\ nextWrite = 0 /\ parg = NoVal
             ELSE /\ currentWrite = (r + held - 1) % size_
                  /\ nextWrite = (r + held) % size_
                  /\ parg = Numbered(r + held)
          /\ IF r = 0
             THEN currentRead = 0 /\ nextRead = 0 /\ record = NoVal
             ELSE currentRead = r - 1 /\ nextRead = r /\ record = Numbered(r)
    /\ ppc = "idle" /\ cpc = "idle"
    /\ frontp = Null /\ peek = NoVal
    /\ ub = FALSE
    /\ destroyed = FALSE
    /\ gload = [who \in {"p", "c"} |-> NotLoaded]
    /\ guessed = NoGuess
    /\ owed = FALSE
    /\ answered = NoAnswer
    /\ BQInit /\ max_size = 0

\* the two threads call size_guess while no emplace and no poll is running
CursorsNext == \E who \in {"p", "c"} : SizeGuess(who)

SpecRingCursors == CursorInit /\ [][CursorsNext]_vars

\* C38: for every capacity the unsigned size field can hold and every pair of
\* cursor values r, w below the capacity, size_guess called between the calls
\* of emplace and poll returns (w - r) modulo the capacity.
C38_SizeGuessArithmetic ==
    guessed.by # "none" => guessed.ret = (writeIndex_ - readIndex_) % size_

\* C38 witness: with the largest capacity, the read cursor at 0 and half the
\* range of unsigned int elements in the buffer, size_guess has returned one
\* less than the number of elements.
C38_Witness ==
    /\ size_ = UintRange - 1
    /\ readIndex_ = 0
    /\ writeIndex_ = UintRange \div 2
    /\ Len(emplaced) - Len(polled) = UintRange \div 2
    /\ guessed.by # "none"
    /\ guessed.ret = (UintRange \div 2) - 1

\* as long as the capacity is at most half the range of unsigned int, the
\* statement of C38 holds
C38_SmallCapacity == size_ <= UintRange \div 2 => C38_SizeGuessArithmetic

\* ------------------- blocking queue: elements added only with emplace (C39)
\* the owner's steps inside the calls other than emplace_range
SingleOwnerStep ==
    \/ Emplace(Owner, Numbered(Len(appended) + 1))
    \/ Poll(Owner)
    \/ Consume(Owner)
    \/ Unblock(Owner)
    \/ IsBlocking(Owner)
    \/ Size(Owner)

\* the owner fills the queue with emplace only, drains it and unblocks it; the
\* takers call take with or without a timeout
SingleNext ==
    \/ \E op \in (GuardedOps \ {"emplace_range_rv", "emplace_range_lv"}) \cup ObserverOps :
          OwnerCall(op)
    \/ SingleOwnerStep
    \/ \E t \in Takers :
          \/ \E tmo \in BOOLEAN : TakerCall(t, tmo)
          \/ TakerStep(t)
          \/ TakeTimeout(t)
          \/ SpuriousWakeup(t)

SpecBQSingle == InitUnblock /\ [][SingleNext]_vars

\* C39: when elements are added only with emplace, in every reachable state
\* in which a take is suspended on the not-empty condition and no wakeup is
\* on its way to it, the sequence is empty; the suspended threads are the
\* threads in the wait set of the condition.
C39_NoWaiterBesideElement ==
    /\ \A t \in DOMAIN bpc : bpc[t] = "t_wait" => delegate = <<>>
    /\ empty_cv = {t \in DOMAIN bpc : bpc[t] = "t_wait"}

\* C39 witness: an emplace on the empty sequence has just returned: the
\* sequence holds its element, both takers are awake inside their wait and
\* nobody is suspended.
C39_Witness ==
    /\ last = Returned("emplace", 1, NoVal, FALSE)
    /\ Len(delegate) = 1 /\ appended = delegate
    /\ blocking
    /\ \A t \in Takers : bpc[t] = "t_woken" /\ ~timed[t]
    /\ empty_cv = {}

\* a taker is suspended on the empty sequence while the other taker, woken,
\* has not yet run again, and the element that woke it is gone
C39_SuspendedOnEmpty ==
    /\ delegate = <<>> /\ blocking
    /\ removed # <<>> /\ removed = appended
    /\ \E t, u \in Takers : bpc[t] = "t_wait" /\ bpc[u] = "t_woken"

====
